---- MODULE Spec2Model ----
(***************************************************************************)
(* A model of the JSONB edit engine of src/src/json.c: the header codec,   *)
(* the growable blob buffer, the path navigator/editor                     *)
(* (jsonLookupBlobStep), the multi-path edit drivers (jsonRemoveFunc,      *)
(* jsonInsertIntoBlob) and RFC-7396 merge-patch (jsonMergePatchBlob).      *)
(*                                                                         *)
(* Blobs, paths and SQL text are sequences of byte values (0..255); C      *)
(* offsets are zero-based and are kept zero-based here (see Rd / zAt).     *)
(***************************************************************************)
EXTENDS Integers, Sequences, FiniteSets, TLC

(***************************************************************************)
(* Program constants                                                       *)
(***************************************************************************)
JSONB_NULL == 0
JSONB_TRUE == 1
JSONB_FALSE == 2
JSONB_INT == 3
JSONB_INT5 == 4
JSONB_FLOAT == 5
JSONB_FLOAT5 == 6
JSONB_TEXT == 7
JSONB_TEXTJ == 8
JSONB_TEXT5 == 9
JSONB_TEXTRAW == 10
JSONB_ARRAY == 11
JSONB_OBJECT == 12

JEDIT_DEL == 1
JEDIT_REPL == 2
JEDIT_INS == 3
JEDIT_SET == 4

\* u32 values are held as the int32 reading of their 32 bits (two's
\* complement): 0xffffffff is -1, 0xfffffffe is -2, 0xfffffffd is -3.
JSON_BLOB_ERROR == -1
JSON_BLOB_NOTFOUND == -2
JSON_BLOB_PATHERROR == -3

JSON_MERGE_OK == 0
JSON_MERGE_BADTARGET == 1
JSON_MERGE_BADPATCH == 2
JSON_MERGE_OOM == 3

\* a < b for two u32 values
LtU32(a, b) == IF (a >= 0) = (b >= 0) THEN a < b ELSE b < 0

\* a + b modulo 2^32 for a u32 value a and 0 <= b < 2^30
AddU32(a, b) ==
  IF a >= 0 /\ a > 2147483647 - b
    THEN ((((a - 1073741824) + b) - 1073741824) - 1073741824) - 1073741824
    ELSE a + b

\* ASCII codes of the characters the path interpreter looks at
CH_NUL == 0
CH_DQUOTE == 34
CH_HASH == 35
CH_DOLLAR == 36
CH_MINUS == 45
CH_DOT == 46
CH_0 == 48
CH_9 == 57
CH_LBRACKET == 91
CH_BACKSLASH == 92
CH_RBRACKET == 93

JSON_BLOB_ISERROR(x) == ~LtU32(x, JSON_BLOB_PATHERROR)

sqlite3Isdigit(c) == c >= CH_0 /\ c <= CH_9

(***************************************************************************)
(* Memory access helpers                                                   *)
(***************************************************************************)
\* a[i] for a zero-based offset i into a byte buffer.  Offsets at or past
\* the initialised length read 0; every reader below compares its offset
\* with nBlob before it uses the byte.
Rd(a, i) == IF i >= 0 /\ i < Len(a) THEN a[i+1] ELSE 0

\* z[i] of a NUL-terminated C string
zAt(z, i) == IF i >= 0 /\ i < Len(z) THEN z[i+1] ELSE CH_NUL

\* &z[i]: the suffix of a C string starting at offset i
zFrom(z, i) == IF i >= Len(z) THEN <<>> ELSE SubSeq(z, i+1, Len(z))

\* the n bytes of a[] starting at zero-based offset i
Bytes(a, i, n) == IF n <= 0 THEN <<>> ELSE SubSeq(a, i+1, i+n)

\* memcpy(&a[i], src, Len(src)) into an existing buffer
memcpy(a, i, src) ==
  [x \in 1..Len(a) |-> IF x > i /\ x <= i + Len(src) THEN src[x-i] ELSE a[x]]

\* value of a byte freshly made available by realloc/memmove, before the
\* code stores anything in it (kind nibble 15 is not a JSONB kind)
UNINIT == 255

Fill(n) == [x \in 1..n |-> UNINIT]

(***************************************************************************)
(* JsonParse                                                               *)
(*   nBlob is Len(aBlob).  nMalloc / failAt model the allocator: the       *)
(*   failAt-th allocation request of a call fails (0 = none fails).        *)
(*   extWrite records a store through aBlob while aBlob is a borrowed      *)
(*   (externally owned) buffer, i.e. nBlobAlloc = 0; heapOvf records a     *)
(*   store past the nBlobAlloc bytes allocated to aBlob.                   *)
(***************************************************************************)
NewParse(aBlob, nMalloc, failAt) ==
  [ aBlob |-> aBlob, nBlobAlloc |-> 0, oom |-> FALSE, delta |-> 0,
    eEdit |-> 0, aIns |-> <<>>, iLabel |-> 0,
    nMalloc |-> nMalloc, failAt |-> failAt, extWrite |-> FALSE,
    heapOvf |-> FALSE ]

\* one request to sqlite3_malloc/realloc: TRUE when it fails
AllocFails(p) == p.failAt # 0 /\ p.nMalloc + 1 = p.failAt

jsonBlobExpand(pParse, N) ==
  LET t0 == IF pParse.nBlobAlloc = 0 THEN 100 ELSE pParse.nBlobAlloc * 2
      t  == IF t0 < N THEN N + 100 ELSE t0
  IN IF AllocFails(pParse)
       THEN [pParse EXCEPT !.oom = TRUE, !.nMalloc = @ + 1]
       ELSE [pParse EXCEPT !.nBlobAlloc = t, !.nMalloc = @ + 1]

\* returns the parse; the C return value is  ~oom /\ nBlobAlloc > 0
jsonBlobMakeEditable(pParse, nExtra) ==
  IF pParse.oom THEN pParse
  ELSE IF pParse.nBlobAlloc > 0 THEN pParse
  ELSE LET q == jsonBlobExpand(pParse, Len(pParse.aBlob) + nExtra)
       IN IF q.oom THEN [q EXCEPT !.aBlob = <<>>] ELSE q

IsEditable(pParse) == ~pParse.oom /\ pParse.nBlobAlloc > 0

(***************************************************************************)
(* Header codec                                                            *)
(***************************************************************************)
\* The size field of the header at i, whose size class (upper four bits of
\* the first byte) is x: ok = the size bytes lie within the nBlob bytes in
\* use, sz = payload size, n = header length.
HeaderSize(a, nBlob, i, x) ==
  IF x <= 11 THEN [ok |-> TRUE, sz |-> x, n |-> 1]
  ELSE IF x = 12 THEN
    IF i + 1 >= nBlob THEN [ok |-> FALSE, sz |-> 0, n |-> 0]
    ELSE [ok |-> TRUE, sz |-> Rd(a, i+1), n |-> 2]
  ELSE IF x = 13 THEN
    IF i + 2 >= nBlob THEN [ok |-> FALSE, sz |-> 0, n |-> 0]
    ELSE [ok |-> TRUE, sz |-> Rd(a, i+1) * 256 + Rd(a, i+2), n |-> 3]
  ELSE
    IF i + 4 >= nBlob THEN [ok |-> FALSE, sz |-> 0, n |-> 0]
    ELSE [ok |-> TRUE,
          sz |-> (IF Rd(a, i+1) >= 128 THEN Rd(a, i+1) - 256
                                       ELSE Rd(a, i+1)) * 16777216
                 + Rd(a, i+2) * 65536
                 + Rd(a, i+3) * 256 + Rd(a, i+4),
          n |-> 5]

\* if( i+sz+n > nBlob && i+sz+n > nBlob-delta ) n = 0;   end is i+sz+n
PayloadSizeCheck(hdr, nBlob, delta, i, end) ==
  IF i > nBlob THEN [n |-> 0, sz |-> 0]
  ELSE IF ~hdr.ok THEN [n |-> 0, sz |-> 0]
  ELSE IF LtU32(nBlob, end) /\ LtU32(nBlob - delta, end)
    THEN [n |-> 0, sz |-> 0]
  ELSE [n |-> hdr.n, sz |-> hdr.sz]

PayloadSizeOf(hdr, nBlob, delta, i) ==
  PayloadSizeCheck(hdr, nBlob, delta, i, AddU32(hdr.sz, i + hdr.n))

\* jsonbPayloadSize for a buffer a[] of which nBlob bytes are in use.
\* Returns [n |-> header length (0 on error), sz |-> payload size].
PayloadSizeAt(a, nBlob, delta, i) ==
  PayloadSizeOf(HeaderSize(a, nBlob, i, Rd(a, i) \div 16), nBlob, delta, i)

jsonbPayloadSize(pParse, i) ==
  PayloadSizeAt(pParse.aBlob, Len(pParse.aBlob), pParse.delta, i)

\* a size of two bytes stored with the low byte first
NodeHeaderLowFirst(eType, szPayload) ==
  IF szPayload <= 11 THEN << eType + szPayload * 16 >>
  ELSE IF szPayload <= 255 THEN << eType + 192, szPayload % 256 >>
  ELSE IF szPayload <= 65535
    THEN << eType + 208, szPayload % 256, (szPayload \div 256) % 256 >>
  ELSE << eType + 224, (szPayload \div 16777216) % 256,
          (szPayload \div 65536) % 256, (szPayload \div 256) % 256,
          szPayload % 256 >>

\* the header bytes jsonBlobAppendNode writes for (eType, szPayload)
NodeHeader(eType, szPayload) ==
  IF szPayload <= 11 THEN << eType + szPayload * 16 >>
  ELSE IF szPayload <= 255 THEN << eType + 192, szPayload % 256 >>
  ELSE IF szPayload <= 65535
    THEN << eType + 208, (szPayload \div 256) % 256, szPayload % 256 >>
  ELSE << eType + 224, (szPayload \div 16777216) % 256,
          (szPayload \div 65536) % 256, (szPayload \div 256) % 256,
          szPayload % 256 >>

\* jsonBlobAppendNode(pParse, eType, szPayload, aPayload); aPayload is a
\* byte sequence of length szPayload, or <<>> with hasPayload = FALSE for
\* a NULL aPayload (header only).
jsonBlobAppendNode(pParse, eType, szPayload, aPayload, hasPayload) ==
  LET need == Len(pParse.aBlob) + szPayload + 9 > pParse.nBlobAlloc
      q == IF need
             THEN jsonBlobExpand(pParse, Len(pParse.aBlob) + szPayload + 9)
             ELSE pParse
  IN IF need /\ AllocFails(pParse) THEN q
     ELSE [q EXCEPT !.aBlob = @ \o NodeHeader(eType, szPayload)
                                 \o (IF hasPayload THEN aPayload ELSE <<>>)]

\* number of size bytes of a header whose size class is szType
SizeBytesOfClass(szType) ==
  IF szType <= 11 THEN 0 ELSE IF szType = 12 THEN 1
  ELSE IF szType = 13 THEN 2 ELSE 4

\* number of size bytes a payload of szPayload bytes needs
SizeBytesNeeded(szPayload) ==
  IF szPayload <= 11 THEN 0 ELSE IF szPayload <= 255 THEN 1
  ELSE IF szPayload <= 65535 THEN 2 ELSE 4

\* The memmove and the header stores of jsonBlobChangePayloadSize; q is
\* the parse after the jsonBlobExpand call (if one was needed).
ChangePayloadSizeStore(q, failed, i, szPayload, nExtra, nNeeded) ==
  IF failed THEN [p |-> q, delta |-> 0]
  ELSE [p |-> [q EXCEPT
                 !.aBlob =
                   memcpy(Bytes(@, 0, i + 1) \o Fill(nNeeded)
                          \o Bytes(@, i + 1 + nExtra, Len(@) - (i + 1 + nExtra)),
                          i, NodeHeader(Rd(@, i) % 16, szPayload)),
                 !.extWrite = @ \/ (q.nBlobAlloc = 0)],
        delta |-> nNeeded - nExtra]

ChangePayloadSizeGrow(pParse, i, szPayload, nExtra, nNeeded) ==
  IF nNeeded - nExtra > 0
     /\ Len(pParse.aBlob) + (nNeeded - nExtra) > pParse.nBlobAlloc
    THEN ChangePayloadSizeStore(
           jsonBlobExpand(pParse, Len(pParse.aBlob) + (nNeeded - nExtra)),
           AllocFails(pParse), i, szPayload, nExtra, nNeeded)
    ELSE ChangePayloadSizeStore(pParse, FALSE, i, szPayload, nExtra, nNeeded)

\* Returns [p |-> parse, delta |-> change of the header length]
jsonBlobChangePayloadSize(pParse, i, szPayload) ==
  IF pParse.oom THEN [p |-> pParse, delta |-> 0]
  ELSE ChangePayloadSizeGrow(pParse, i, szPayload,
                             SizeBytesOfClass(Rd(pParse.aBlob, i) \div 16),
                             SizeBytesNeeded(szPayload))

(***************************************************************************)
(* Editor primitives                                                       *)
(***************************************************************************)
\* pParse->delta += jsonBlobChangePayloadSize(...)
AddHeaderDelta(r) == [r.p EXCEPT !.delta = @ + r.delta]

\* the header at iRoot is rewritten with its old payload size
jsonAfterEditSizeAdjustNoDelta(pParse, iRoot) ==
  AddHeaderDelta(
    jsonBlobChangePayloadSize(
      pParse, iRoot,
      PayloadSizeAt(pParse.aBlob, pParse.nBlobAlloc, pParse.delta, iRoot).sz))

\* jsonbPayloadSize is called with nBlob set to nBlobAlloc
jsonAfterEditSizeAdjust(pParse, iRoot) ==
  AddHeaderDelta(
    jsonBlobChangePayloadSize(
      pParse, iRoot,
      PayloadSizeAt(pParse.aBlob, pParse.nBlobAlloc, pParse.delta, iRoot).sz
      + pParse.delta))

\* memmove(&aBlob[iDel+nIns], &aBlob[iDel+nDel], nBlob - (iDel+nDel))
BlobEditMove(a, iDel, nDel, nIns, d) ==
  IF d # 0
    THEN Bytes(a, 0, iDel) \o Fill(nIns)
         \o Bytes(a, iDel + nDel, Len(a) - (iDel + nDel))
    ELSE a

\* The memmove / memcpy of jsonBlobEdit; q is the parse after the
\* jsonBlobExpand call (expanded = TRUE) or the parse as it was, extern
\* tells that aBlob was not owned on entry, d is nIns - nDel.
BlobEditStore(q, expanded, extern, iDel, nDel, aIns, nIns, hasIns, d) ==
  IF expanded /\ q.oom THEN q
  ELSE IF d = 0 /\ ~(nIns > 0 /\ hasIns) THEN q
  ELSE [q EXCEPT
          !.aBlob = IF nIns > 0 /\ hasIns
                      THEN memcpy(BlobEditMove(@, iDel, nDel, nIns, d), iDel,
                                  aIns)
                      ELSE BlobEditMove(@, iDel, nDel, nIns, d),
          !.delta = @ + d,
          !.extWrite = @ \/ extern]

\* jsonBlobEdit(pParse, iDel, nDel, aIns, nIns).  hasIns = FALSE stands for
\* aIns == 0: the nIns bytes made available at iDel are left unset.
jsonBlobEdit(pParse, iDel, nDel, aIns, nIns, hasIns) ==
  IF nIns - nDel # 0 /\ Len(pParse.aBlob) + (nIns - nDel) > pParse.nBlobAlloc
    THEN BlobEditStore(jsonBlobExpand(pParse, Len(pParse.aBlob) + nIns - nDel),
                       TRUE, pParse.nBlobAlloc = 0, iDel, nDel, aIns, nIns,
                       hasIns, nIns - nDel)
    ELSE BlobEditStore(pParse, FALSE, pParse.nBlobAlloc = 0, iDel, nDel, aIns,
                       nIns, hasIns, nIns - nDel)

\* while( n>0 && i<iEnd ){ n = jsonbPayloadSize(pParse, i, &sz); i += sz+n; k++ }
RECURSIVE ArrayCountLoop(_,_,_,_,_)
ArrayCountNext(pParse, i, iEnd, k, r) ==
  ArrayCountLoop(pParse, i + r.sz + r.n, iEnd, r.n, k + 1)

ArrayCountLoop(pParse, i, iEnd, n, k) ==
  IF n > 0 /\ i < iEnd
    THEN ArrayCountNext(pParse, i, iEnd, k, jsonbPayloadSize(pParse, i))
    ELSE k

ArrayCountFrom(pParse, iRoot, r) ==
  ArrayCountLoop(pParse, iRoot + r.n, iRoot + r.n + r.sz, r.n, 0)

jsonbArrayCount(pParse, iRoot) ==
  ArrayCountFrom(pParse, iRoot, jsonbPayloadSize(pParse, iRoot))

(***************************************************************************)
(* Navigator / editor: jsonLookupBlobStep                                  *)
(***************************************************************************)
\* the two entries of emptyObject[] exchanged
emptyObjectSwapped(isDot) == IF isDot THEN JSONB_ARRAY ELSE JSONB_OBJECT

\* static const u8 emptyObject[] = { JSONB_ARRAY, JSONB_OBJECT };
emptyObject(isDot) == IF isDot THEN JSONB_OBJECT ELSE JSONB_ARRAY

\* for(i=1; zPath[i] && zPath[i]!='"'; i++){}
RECURSIVE ScanQuoted(_,_)
ScanQuoted(zPath, i) ==
  IF zAt(zPath, i) # CH_NUL /\ zAt(zPath, i) # CH_DQUOTE
    THEN ScanQuoted(zPath, i + 1) ELSE i

\* for(i=0; zPath[i] && zPath[i]!='.' && zPath[i]!='['; i++){}
RECURSIVE ScanBare(_,_)
ScanBare(zPath, i) ==
  IF zAt(zPath, i) # CH_NUL /\ zAt(zPath, i) # CH_DOT
     /\ zAt(zPath, i) # CH_LBRACKET
    THEN ScanBare(zPath, i + 1) ELSE i

\* The label of a ".label" step; zPath is the text after the '.'.
\* i is the offset in zPath of the first byte after the step.
PathLabel(zPath) ==
  IF zAt(zPath, 0) = CH_DQUOTE
    THEN LET i == ScanQuoted(zPath, 1)
         IN IF zAt(zPath, i) # CH_NUL
              THEN [ok |-> TRUE, zKey |-> Bytes(zPath, 1, i - 1), i |-> i + 1]
              ELSE [ok |-> FALSE, zKey |-> <<>>, i |-> i]
    ELSE LET i == ScanBare(zPath, 0)
         IN IF i = 0 THEN [ok |-> FALSE, zKey |-> <<>>, i |-> i]
            ELSE [ok |-> TRUE, zKey |-> Bytes(zPath, 0, i), i |-> i]

\* while( sqlite3Isdigit(zPath[i]) ){ k = k*10 + zPath[i] - '0'; i++; }
RECURSIVE ScanDigits(_,_,_)
ScanDigits(zPath, i, k) ==
  IF sqlite3Isdigit(zAt(zPath, i))
    THEN ScanDigits(zPath, i + 1, k * 10 + zAt(zPath, i) - CH_0)
    ELSE [i |-> i, k |-> k]

\* [#] taken as the last element: k = count - 1 - nn
PathIndexHashIsLast(zPath, cnt, hasN, nn) ==
  IF hasN /\ nn.k > cnt
    THEN [rc |-> JSON_BLOB_NOTFOUND, k |-> cnt, i |-> nn.i]
  ELSE IF zAt(zPath, nn.i) # CH_RBRACKET
    THEN [rc |-> JSON_BLOB_PATHERROR, k |-> cnt, i |-> nn.i]
  ELSE [rc |-> 0, k |-> cnt - 1 - nn.k, i |-> nn.i]

\* The zPath[1]=='#' form of an index: cnt is jsonbArrayCount(pParse,iRoot),
\* hasN says that "-N" follows the '#', nn is the scan of N (nn.i = 2 and
\* nn.k = 0 without it).
PathIndexHash(zPath, cnt, hasN, nn) ==
  IF hasN /\ nn.k > cnt
    THEN [rc |-> JSON_BLOB_NOTFOUND, k |-> cnt, i |-> nn.i]
  ELSE IF zAt(zPath, nn.i) # CH_RBRACKET
    THEN [rc |-> JSON_BLOB_PATHERROR, k |-> cnt, i |-> nn.i]
  ELSE [rc |-> 0, k |-> cnt - nn.k, i |-> nn.i]

\* [N] counted from one: k = N + 1
PathIndexDigitsFromOne(pParse, iRoot, zPath, d) ==
  IF d.i < 2 \/ zAt(zPath, d.i) # CH_RBRACKET
    THEN IF zAt(zPath, 1) = CH_HASH
           THEN PathIndexHash(zPath, jsonbArrayCount(pParse, iRoot),
                  zAt(zPath, 2) = CH_MINUS /\ sqlite3Isdigit(zAt(zPath, 3)),
                  IF zAt(zPath, 2) = CH_MINUS /\ sqlite3Isdigit(zAt(zPath, 3))
                    THEN ScanDigits(zPath, 3, 0) ELSE [i |-> 2, k |-> 0])
           ELSE [rc |-> JSON_BLOB_PATHERROR, k |-> 0, i |-> d.i]
    ELSE [rc |-> 0, k |-> d.k + 1, i |-> d.i]

\* The index of a "[...]" step after the digits d have been scanned.
PathIndexDigits(pParse, iRoot, zPath, d) ==
  IF d.i < 2 \/ zAt(zPath, d.i) # CH_RBRACKET
    THEN IF zAt(zPath, 1) = CH_HASH
           THEN PathIndexHash(zPath, jsonbArrayCount(pParse, iRoot),
                  zAt(zPath, 2) = CH_MINUS /\ sqlite3Isdigit(zAt(zPath, 3)),
                  IF zAt(zPath, 2) = CH_MINUS /\ sqlite3Isdigit(zAt(zPath, 3))
                    THEN ScanDigits(zPath, 3, 0) ELSE [i |-> 2, k |-> 0])
           ELSE [rc |-> JSON_BLOB_PATHERROR, k |-> 0, i |-> d.i]
    ELSE [rc |-> 0, k |-> d.k, i |-> d.i]

\* The index of a "[...]" step; zPath[0] is '['.  rc = 0 when the step is
\* well formed, else the error code the navigator returns; k is the index
\* and i the offset of the closing ']'.
PathIndex(pParse, iRoot, zPath) ==
  PathIndexDigits(pParse, iRoot, zPath, ScanDigits(zPath, 1, 0))

\* The while( j<iEnd ) loop over the label/value pairs of an object.
\*   t = "hit": label at j matches, value at v;  t = "end": loop finished
\*   with cursor j;  t = "error": JSON_BLOB_ERROR.
RECURSIVE ObjectScan(_,_,_,_)

\* the part of the loop body after the label (text at k, sz bytes) has been
\* sized: v is the offset of the value and rv its jsonbPayloadSize
ObjectScanValue(pParse, j, iEnd, zKey, k, sz, v, rv) ==
  IF sz = Len(zKey) /\ Bytes(pParse.aBlob, k, sz) = zKey
    THEN IF Rd(pParse.aBlob, v) % 16 > JSONB_OBJECT
           THEN [t |-> "error", j |-> j, v |-> 0]
         ELSE IF rv.n = 0 \/ v + rv.n + rv.sz > iEnd
           THEN [t |-> "error", j |-> j, v |-> 0]
         ELSE [t |-> "hit", j |-> j, v |-> v]
  ELSE IF Rd(pParse.aBlob, v) % 16 > JSONB_OBJECT
    THEN [t |-> "error", j |-> j, v |-> 0]
  ELSE IF rv.n = 0 THEN [t |-> "error", j |-> j, v |-> 0]
  ELSE ObjectScan(pParse, v + rv.n + rv.sz, iEnd, zKey)

\* the part of the loop body that reads the label at j; r is its
\* jsonbPayloadSize
ObjectScanLabel(pParse, j, iEnd, zKey, x, r) ==
  IF x < JSONB_TEXT \/ x > JSONB_TEXTRAW
    THEN [t |-> "error", j |-> j, v |-> 0]
  ELSE IF r.n = 0 THEN [t |-> "error", j |-> j, v |-> 0]
  ELSE IF j + r.n + r.sz >= iEnd THEN [t |-> "error", j |-> j, v |-> 0]
  ELSE ObjectScanValue(pParse, j, iEnd, zKey, j + r.n, r.sz,
                       j + r.n + r.sz,
                       jsonbPayloadSize(pParse, j + r.n + r.sz))

ObjectScan(pParse, j, iEnd, zKey) ==
  IF j < iEnd
    THEN ObjectScanLabel(pParse, j, iEnd, zKey, Rd(pParse.aBlob, j) % 16,
                         jsonbPayloadSize(pParse, j))
    ELSE [t |-> "end", j |-> j, v |-> 0]

\* The while( j<iEnd ) loop over the elements of an array.
RECURSIVE ArrayScan(_,_,_,_)

\* n = jsonbPayloadSize(pParse, j, &sz); if( n==0 ) return JSON_BLOB_ERROR;
\* j += n+sz;
ArrayScanNext(pParse, j, iEnd, k, r) ==
  IF r.n = 0 THEN [t |-> "error", j |-> j, k |-> k]
  ELSE ArrayScan(pParse, j + r.n + r.sz, iEnd, k - 1)

ArrayScan(pParse, j, iEnd, k) ==
  IF j < iEnd
    THEN IF k = 0 THEN [t |-> "hit", j |-> j, k |-> 0]
         ELSE ArrayScanNext(pParse, j, iEnd, k, jsonbPayloadSize(pParse, j))
    ELSE [t |-> "end", j |-> j, k |-> k]

\* if( pParse->delta ) jsonAfterEditSizeAdjust(pParse, iRoot);
AdjustIfDelta(pParse, iRoot) ==
  IF pParse.delta # 0 THEN jsonAfterEditSizeAdjust(pParse, iRoot) ELSE pParse

\* JEDIT_INS on an element that exists overwrites it as JEDIT_SET does
LeafEditInsOverwrites(q, iRoot, iLabel, sz) ==
  IF q.eEdit = JEDIT_DEL
    THEN IF iLabel > 0
           THEN [p |-> jsonBlobEdit(q, iLabel, sz + iRoot - iLabel,
                                    <<>>, 0, FALSE),
                 rc |-> iLabel]
           ELSE [p |-> jsonBlobEdit(q, iRoot, sz, <<>>, 0, FALSE),
                 rc |-> iRoot]
  ELSE [p |-> jsonBlobEdit(q, iRoot, sz, q.aIns, Len(q.aIns), TRUE),
        rc |-> iRoot]

\* The edit of the element found at iRoot; sz is the size of the element,
\* header included.  JEDIT_DEL deletes it with its label, JEDIT_INS leaves
\* it alone, JEDIT_REPL and JEDIT_SET overwrite it.
LeafEdit(q, iRoot, iLabel, sz) ==
  IF q.eEdit = JEDIT_DEL
    THEN IF iLabel > 0
           THEN [p |-> jsonBlobEdit(q, iLabel, sz + iRoot - iLabel,
                                    <<>>, 0, FALSE),
                 rc |-> iLabel]
           ELSE [p |-> jsonBlobEdit(q, iRoot, sz, <<>>, 0, FALSE),
                 rc |-> iRoot]
  ELSE IF q.eEdit = JEDIT_INS THEN [p |-> q, rc |-> iRoot]
  ELSE [p |-> jsonBlobEdit(q, iRoot, sz, q.aIns, Len(q.aIns), TRUE),
        rc |-> iRoot]

\* pParse->iLabel = iLabel; return iRoot;
LeafReturn(r, iLabel) == [p |-> [r.p EXCEPT !.iLabel = iLabel], rc |-> r.rc]

\* q is pParse after jsonBlobMakeEditable(pParse, pParse->nIns), which holds
\* the bytes of pParse when it succeeds; r is jsonbPayloadSize at iRoot
LeafEditable(q, iRoot, iLabel, r) ==
  IF IsEditable(q)
    THEN LeafReturn(LeafEdit(q, iRoot, iLabel, r.sz + r.n), iLabel)
    ELSE [p |-> [q EXCEPT !.iLabel = iLabel], rc |-> iRoot]

\* The zPath[0]==0 case: the element at iRoot is the one the path names.
LookupLeaf(pParse, iRoot, iLabel) ==
  IF pParse.eEdit # 0
    THEN LeafEditable(jsonBlobMakeEditable(pParse, Len(pParse.aIns)),
                      iRoot, iLabel, jsonbPayloadSize(pParse, iRoot))
    ELSE [p |-> [pParse EXCEPT !.iLabel = iLabel], rc |-> iRoot]

\* JsonParse v of the create-missing code before the recursive call
SubParse(pParse, isDot, nMalloc) ==
  [NewParse(<< emptyObject(isDot) >>, nMalloc, pParse.failAt)
     EXCEPT !.eEdit = pParse.eEdit, !.aIns = pParse.aIns]

\* pParse->oom |= oom, with the allocation count and the memory-safety
\* flags of the sub-parse v, which outlive v
Absorb(pParse, v, oom) ==
  [pParse EXCEPT !.oom = @ \/ oom,
                 !.nMalloc = v.nMalloc,
                 !.extWrite = @ \/ v.extWrite,
                 !.heapOvf = @ \/ v.heapOvf]

\* rc = jsonLookupBlobStep(...);
\* if( pParse->delta ) jsonAfterEditSizeAdjust(pParse, iRoot); return rc;
StepInto(sub, iRoot) == [p |-> AdjustIfDelta(sub.p, iRoot), rc |-> sub.rc]

RECURSIVE jsonLookupBlobStep(_,_,_,_)

\* The three memcpy() of the new label and value into the gap jsonBlobEdit
\* opened at j; p3 is pParse after jsonBlobEdit(pParse, j, 0, 0, nIns).
\* The copies are made whether or not jsonBlobEdit could enlarge aBlob.
ObjectCreateStore(p3, iRoot, j, ixBlob, zKey, vBlob) ==
  AdjustIfDelta(
    [p3 EXCEPT !.aBlob = memcpy(memcpy(memcpy(@, j, ixBlob),
                                       j + Len(ixBlob), zKey),
                                j + Len(ixBlob) + Len(zKey), vBlob),
               !.heapOvf = @ \/ (j + Len(ixBlob) + Len(zKey) + Len(vBlob)
                                   > p3.nBlobAlloc)],
    iRoot)

\* p2 is pParse after jsonBlobMakeEditable(pParse, ix.nBlob+nKey+v.nBlob)
ObjectCreateEdit(p2, iRoot, j, ixBlob, zKey, vBlob) ==
  IF IsEditable(p2)
    THEN [p |-> ObjectCreateStore(
                  jsonBlobEdit(p2, j, 0, <<>>,
                               Len(ixBlob) + Len(zKey) + Len(vBlob), FALSE),
                  iRoot, j, ixBlob, zKey, vBlob),
          rc |-> j]
    ELSE [p |-> p2, rc |-> j]

\* sub is the new value: the inserted value when the path ends here (last),
\* else the outcome of the recursive call on an empty container
ObjectCreateInsert(pParse, iRoot, j, ix, zKey, last, sub) ==
  IF ~last /\ (JSON_BLOB_ISERROR(sub.rc) \/ sub.p.oom)
    THEN [p |-> Absorb(pParse, sub.p, sub.p.oom), rc |-> sub.rc]
    ELSE ObjectCreateEdit(
           jsonBlobMakeEditable(Absorb(pParse, sub.p, ix.oom),
                                Len(ix.aBlob) + Len(zKey) + Len(sub.p.aBlob)),
           iRoot, j, ix.aBlob, zKey, sub.p.aBlob)

\* The label was not found and eEdit>=JEDIT_INS: append label and value at
\* j.  ix holds the header of the new label.
ObjectCreate(pParse, iRoot, j, zKey, zRest, ix) ==
  ObjectCreateInsert(pParse, iRoot, j, ix, zKey, zAt(zRest, 0) = CH_NUL,
    IF zAt(zRest, 0) = CH_NUL
      THEN [p |-> NewParse(pParse.aIns, ix.nMalloc, pParse.failAt), rc |-> 0]
      ELSE jsonLookupBlobStep(
             SubParse(pParse, zAt(zRest, 0) = CH_DOT, ix.nMalloc),
             0, zRest, 0))

\* what follows the while( j<iEnd ) loop over the members
ObjectStepEnd(pParse, iRoot, zKey, zRest, iEnd, scan) ==
  IF scan.t = "error" THEN [p |-> pParse, rc |-> JSON_BLOB_ERROR]
  ELSE IF scan.t = "hit"
    THEN StepInto(jsonLookupBlobStep(pParse, scan.v, zRest, scan.j), iRoot)
  ELSE IF scan.j > iEnd THEN [p |-> pParse, rc |-> JSON_BLOB_ERROR]
  ELSE IF pParse.eEdit >= JEDIT_INS
    THEN ObjectCreate(pParse, iRoot, scan.j, zKey, zRest,
           jsonBlobAppendNode(NewParse(<<>>, pParse.nMalloc, pParse.failAt),
                              JSONB_TEXTRAW, Len(zKey), <<>>, FALSE))
  ELSE [p |-> pParse, rc |-> JSON_BLOB_NOTFOUND]

\* r is jsonbPayloadSize(pParse, iRoot)
ObjectStepSized(pParse, iRoot, zKey, zRest, r) ==
  ObjectStepEnd(pParse, iRoot, zKey, zRest, iRoot + r.n + r.sz,
                ObjectScan(pParse, iRoot + r.n, iRoot + r.n + r.sz, zKey))

\* The zPath[0]=='.' case; zP is the text after the '.', lab its label.
ObjectStep(pParse, iRoot, zP, lab) ==
  IF ~lab.ok THEN [p |-> pParse, rc |-> JSON_BLOB_PATHERROR]
  ELSE IF Rd(pParse.aBlob, iRoot) % 16 # JSONB_OBJECT
    THEN [p |-> pParse, rc |-> JSON_BLOB_NOTFOUND]
  ELSE ObjectStepSized(pParse, iRoot, lab.zKey, zFrom(zP, lab.i),
                       jsonbPayloadSize(pParse, iRoot))

\* p2 is pParse after jsonBlobMakeEditable(pParse, v.nBlob)
ArrayCreateEdit(p2, j, vBlob) ==
  IF IsEditable(p2) THEN jsonBlobEdit(p2, j, 0, vBlob, Len(vBlob), TRUE)
  ELSE p2

\* The index is one past the last element and eEdit>=JEDIT_INS: append the
\* value sub at j.
ArrayCreateInsert(pParse, iRoot, j, last, sub) ==
  IF ~last /\ (JSON_BLOB_ISERROR(sub.rc) \/ sub.p.oom)
    THEN [p |-> Absorb(pParse, sub.p, sub.p.oom), rc |-> sub.rc]
    ELSE [p |-> AdjustIfDelta(
                  ArrayCreateEdit(
                    jsonBlobMakeEditable(Absorb(pParse, sub.p, FALSE),
                                         Len(sub.p.aBlob)),
                    j, sub.p.aBlob),
                  iRoot),
          rc |-> j]

\* an index behind the end is taken for the position that follows the last
\* element
ArrayStepEndAnyIndex(pParse, iRoot, zRest, iEnd, scan) ==
  IF scan.t = "error" THEN [p |-> pParse, rc |-> JSON_BLOB_ERROR]
  ELSE IF scan.t = "hit"
    THEN StepInto(jsonLookupBlobStep(pParse, scan.j, zRest, 0), iRoot)
  ELSE IF scan.j > iEnd THEN [p |-> pParse, rc |-> JSON_BLOB_ERROR]
  ELSE IF pParse.eEdit >= JEDIT_INS
    THEN ArrayCreateInsert(pParse, iRoot, scan.j, zAt(zRest, 0) = CH_NUL,
           IF zAt(zRest, 0) = CH_NUL
             THEN [p |-> NewParse(pParse.aIns, pParse.nMalloc, pParse.failAt),
                   rc |-> 0]
             ELSE jsonLookupBlobStep(
                    SubParse(pParse, zAt(zRest, 0) = CH_DOT, pParse.nMalloc),
                    0, zRest, 0))
  ELSE [p |-> pParse, rc |-> JSON_BLOB_NOTFOUND]

\* what follows the while( j<iEnd ) loop over the elements
ArrayStepEnd(pParse, iRoot, zRest, iEnd, scan) ==
  IF scan.t = "error" THEN [p |-> pParse, rc |-> JSON_BLOB_ERROR]
  ELSE IF scan.t = "hit"
    THEN StepInto(jsonLookupBlobStep(pParse, scan.j, zRest, 0), iRoot)
  ELSE IF scan.j > iEnd THEN [p |-> pParse, rc |-> JSON_BLOB_ERROR]
  ELSE IF scan.k > 0 THEN [p |-> pParse, rc |-> JSON_BLOB_NOTFOUND]
  ELSE IF pParse.eEdit >= JEDIT_INS
    THEN ArrayCreateInsert(pParse, iRoot, scan.j, zAt(zRest, 0) = CH_NUL,
           IF zAt(zRest, 0) = CH_NUL
             THEN [p |-> NewParse(pParse.aIns, pParse.nMalloc, pParse.failAt),
                   rc |-> 0]
             ELSE jsonLookupBlobStep(
                    SubParse(pParse, zAt(zRest, 0) = CH_DOT, pParse.nMalloc),
                    0, zRest, 0))
  ELSE [p |-> pParse, rc |-> JSON_BLOB_NOTFOUND]

\* The zPath[0]=='[' case on an array; idx is the index the step names and
\* r is jsonbPayloadSize(pParse, iRoot).
ArrayStep(pParse, iRoot, zPath, idx, r) ==
  IF idx.rc # 0 THEN [p |-> pParse, rc |-> idx.rc]
  ELSE ArrayStepEnd(pParse, iRoot, zFrom(zPath, idx.i + 1),
                    iRoot + r.n + r.sz,
                    ArrayScan(pParse, iRoot + r.n, iRoot + r.n + r.sz, idx.k))

\* the syntax of a '[' step examined before the kind of the element
jsonLookupBlobStepSyntaxFirst(pParse, iRoot, zPath, iLabel) ==
  IF zAt(zPath, 0) = CH_NUL THEN LookupLeaf(pParse, iRoot, iLabel)
  ELSE IF zAt(zPath, 0) = CH_DOT
    THEN ObjectStep(pParse, iRoot, zFrom(zPath, 1),
                    PathLabel(zFrom(zPath, 1)))
  ELSE IF zAt(zPath, 0) = CH_LBRACKET
    THEN IF PathIndex(pParse, iRoot, zPath).rc = JSON_BLOB_PATHERROR
           THEN [p |-> pParse, rc |-> JSON_BLOB_PATHERROR]
         ELSE IF Rd(pParse.aBlob, iRoot) % 16 # JSONB_ARRAY
           THEN [p |-> pParse, rc |-> JSON_BLOB_NOTFOUND]
           ELSE ArrayStep(pParse, iRoot, zPath,
                          PathIndex(pParse, iRoot, zPath),
                          jsonbPayloadSize(pParse, iRoot))
  ELSE [p |-> pParse, rc |-> JSON_BLOB_PATHERROR]

jsonLookupBlobStep(pParse, iRoot, zPath, iLabel) ==
  IF zAt(zPath, 0) = CH_NUL THEN LookupLeaf(pParse, iRoot, iLabel)
  ELSE IF zAt(zPath, 0) = CH_DOT
    THEN ObjectStep(pParse, iRoot, zFrom(zPath, 1),
                    PathLabel(zFrom(zPath, 1)))
  ELSE IF zAt(zPath, 0) = CH_LBRACKET
    THEN IF Rd(pParse.aBlob, iRoot) % 16 # JSONB_ARRAY
           THEN [p |-> pParse, rc |-> JSON_BLOB_NOTFOUND]
           ELSE ArrayStep(pParse, iRoot, zPath,
                          PathIndex(pParse, iRoot, zPath),
                          jsonbPayloadSize(pParse, iRoot))
  ELSE [p |-> pParse, rc |-> JSON_BLOB_PATHERROR]

(***************************************************************************)
(* Renderer: jsonXlateBlobToText                                           *)
(*   Output text is a sequence of byte codes.  eErr is TRUE when           *)
(*   JSTRING_MALFORMED is raised (no JsonString below grows past its       *)
(*   static space, so JSTRING_OOM is not raised).                          *)
(***************************************************************************)
Str_null == <<110, 117, 108, 108>>
Str_true == <<116, 114, 117, 101>>
Str_false == <<102, 97, 108, 115, 101>>
Str_9e999 == <<57, 46, 48, 101, 57, 57, 57>>
HexDigits == <<48, 49, 50, 51, 52, 53, 54, 55, 56, 57, 97, 98, 99, 100, 101, 102>>

\* jsonIsOk[c]: c needs no escape inside a JSON string
jsonIsOk(c) == c >= 32 /\ c # 34 /\ c # 39 /\ c # 92

sqlite3Isxdigit(c) ==
  \/ (c >= 48 /\ c <= 57) \/ (c >= 97 /\ c <= 102) \/ (c >= 65 /\ c <= 70)

sqlite3HexToInt(c) == IF c >= 48 /\ c <= 57 THEN c - 48 ELSE (c % 32) + 9

\* aSpecial[c] of jsonAppendString
aSpecial(c) == IF c = 8 THEN 98 ELSE IF c = 9 THEN 116 ELSE IF c = 10 THEN 110
               ELSE IF c = 12 THEN 102 ELSE IF c = 13 THEN 114 ELSE 0

\* A sqlite3_uint64 is held as the sequence of its decimal digits, most
\* significant first (TLC integers have 32 bits).
RECURSIVE U64MulAdd(_,_,_)
U64MulAdd(ds, m, carry) ==
  IF ds = <<>>
    THEN IF carry = 0 THEN <<>>
         ELSE U64MulAdd(<<>>, m, carry \div 10) \o << carry % 10 >>
    ELSE LET v == ds[Len(ds)] * m + carry
         IN U64MulAdd(SubSeq(ds, 1, Len(ds) - 1), m, v \div 10)
            \o << v % 10 >>

\* 2^60 in decimal digits
TwoPow60 == << 1, 1, 5, 2, 9, 2, 1, 5, 0, 4, 6, 0, 6, 8, 4, 6, 9, 7, 6 >>

RECURSIVE DigitsLt(_,_)
DigitsLt(x, y) ==
  IF Len(x) # Len(y) THEN Len(x) < Len(y)
  ELSE IF x = <<>> THEN FALSE
  ELSE IF x[1] # y[1] THEN x[1] < y[1]
  ELSE DigitsLt(Tail(x), Tail(y))

\* (u>>60)!=0
U64Top4Set(ds) == ~DigitsLt(ds, TwoPow60)

\* "%llu"
U64Text(ds) == [x \in 1..Len(ds) |-> CH_0 + ds[x]]

\* body of jsonAppendString between the two quotes
RECURSIVE AppendStringBody(_)
AppendStringBody(z) ==
  IF z = <<>> THEN <<>>
  ELSE LET c == z[1]
       IN (IF jsonIsOk(c) THEN << c >>
           ELSE IF c = CH_DQUOTE \/ c = CH_BACKSLASH THEN << CH_BACKSLASH, c >>
           ELSE IF c = 39 THEN << c >>
           ELSE IF aSpecial(c) # 0 THEN << CH_BACKSLASH, aSpecial(c) >>
           ELSE << CH_BACKSLASH, 117, 48, 48,
                   HexDigits[(c \div 16) + 1], HexDigits[(c % 16) + 1] >>)
          \o AppendStringBody(Tail(z))

jsonAppendString(z) == << CH_DQUOTE >> \o AppendStringBody(z) \o << CH_DQUOTE >>

\* The while( sz2>0 ) loop of the JSONB_TEXT / JSONB_TEXT5 case; zIn is the
\* offset in a[] of the unread text, sz2 the number of unread bytes.
RECURSIVE Text5Body(_,_,_)
Text5Body(a, zIn, sz2) ==
  IF sz2 <= 0 THEN [out |-> <<>>, eErr |-> FALSE]
  ELSE LET c == Rd(a, zIn)
           c1 == Rd(a, zIn + 1)
           app(hd, r) == [out |-> hd \o r.out, eErr |-> r.eErr]
           bad(hd) == [out |-> hd, eErr |-> TRUE]
           \* after the switch: if( sz2<2 ) malformed; else skip two bytes
           next(hd, skip) ==
             IF sz2 - skip < 2 THEN bad(hd)
             ELSE app(hd, Text5Body(a, zIn + skip + 2, sz2 - skip - 2))
       IN IF c # CH_BACKSLASH /\ c # CH_DQUOTE
            THEN app(<< c >>, Text5Body(a, zIn + 1, sz2 - 1))
          ELSE IF c = CH_DQUOTE
            THEN app(<< CH_BACKSLASH, CH_DQUOTE >>,
                     Text5Body(a, zIn + 1, sz2 - 1))
          ELSE IF sz2 < 2 THEN bad(<<>>)
          ELSE IF c1 = 39 THEN next(<< 39 >>, 0)
          ELSE IF c1 = 118
            THEN next(<< CH_BACKSLASH, 117, 48, 48, 48, 57 >>, 0)
          ELSE IF c1 = 120
            THEN next(<< CH_BACKSLASH, 117, 48, 48, Rd(a, zIn + 2),
                         Rd(a, zIn + 3) >>, 2)
          ELSE IF c1 = 48
            THEN next(<< CH_BACKSLASH, 117, 48, 48, 48, 48 >>, 0)
          ELSE IF c1 = 13
            THEN next(<<>>, IF sz2 > 2 /\ Rd(a, zIn + 2) = 10 THEN 1 ELSE 0)
          ELSE IF c1 = 10 THEN next(<<>>, 0)
          ELSE IF c1 = 226
            THEN IF sz2 < 4 \/ Rd(a, zIn + 2) # 128
                    \/ (Rd(a, zIn + 3) # 168 /\ Rd(a, zIn + 3) # 169)
                   THEN [out |-> Text5Body(a, zIn + 2, sz2 - 2).out,
                         eErr |-> TRUE]
                   ELSE next(<<>>, 2)
          ELSE next(<< c, c1 >>, 0)

\* The for(; k<sz; k++) loop of the JSONB_INT5 case
RECURSIVE Int5Loop(_,_,_,_,_)
Int5Loop(a, zIn, k, sz, st) ==
  IF k >= sz THEN st
  ELSE IF ~sqlite3Isxdigit(Rd(a, zIn + k)) THEN [st EXCEPT !.eErr = TRUE]
  ELSE IF U64Top4Set(st.u)
    THEN Int5Loop(a, zIn, k + 1, sz, [st EXCEPT !.bOverflow = TRUE])
  ELSE Int5Loop(a, zIn, k + 1, sz,
                [st EXCEPT !.u = U64MulAdd(@, 16,
                                           sqlite3HexToInt(Rd(a, zIn + k)))])

\* The for(; k<sz; k++) loop of the JSONB_FLOAT5 case
RECURSIVE Float5Loop(_,_,_,_)
Float5Loop(a, zIn, k, sz) ==
  IF k >= sz THEN <<>>
  ELSE << Rd(a, zIn + k) >>
       \o (IF Rd(a, zIn + k) = CH_DOT
              /\ (k + 1 = sz \/ ~sqlite3Isdigit(Rd(a, zIn + k + 1)))
             THEN << CH_0 >> ELSE <<>>)
       \o Float5Loop(a, zIn, k + 1, sz)

\* Returns [out |-> text appended, eErr |-> malformed seen,
\*          next |-> offset of the first byte past the element]
RECURSIVE jsonXlateBlobToText(_,_)
RECURSIVE XlateChildren(_,_,_,_)
\* while( j<iEnd ){ j = jsonXlateBlobToText(pParse, j, pOut); append sep }
\* x counts the children; isObj selects the ':' / ',' alternation.
XlateChildren(pParse, j, iEnd, st) ==
  IF j < iEnd
    THEN LET r == jsonXlateBlobToText(pParse, j)
             sep == IF st.isObj /\ st.x % 2 = 0 THEN 58 ELSE 44
         IN XlateChildren(pParse, r.next, iEnd,
                          [st EXCEPT !.out = @ \o r.out \o << sep >>,
                                     !.eErr = @ \/ r.eErr,
                                     !.x = @ + 1])
    ELSE st

jsonXlateBlobToText(pParse, i) ==
  LET a == pParse.aBlob
      r == jsonbPayloadSize(pParse, i)
      n == r.n
      sz == r.sz
      kind == Rd(a, i) % 16
      done(out, err) == [out |-> out, eErr |-> err, next |-> i + n + sz]
  IN IF n = 0 THEN [out |-> <<>>, eErr |-> TRUE, next |-> Len(a) + 1]
     ELSE IF kind = JSONB_NULL
       THEN [out |-> Str_null, eErr |-> FALSE, next |-> i + 1]
     ELSE IF kind = JSONB_TRUE
       THEN [out |-> Str_true, eErr |-> FALSE, next |-> i + 1]
     ELSE IF kind = JSONB_FALSE
       THEN [out |-> Str_false, eErr |-> FALSE, next |-> i + 1]
     ELSE IF kind = JSONB_INT \/ kind = JSONB_FLOAT
       THEN done(Bytes(a, i + n, sz), FALSE)
     ELSE IF kind = JSONB_INT5
       THEN LET c0 == Rd(a, i + n)
                st == Int5Loop(a, i + n,
                               IF c0 = CH_MINUS \/ c0 = 43 THEN 3 ELSE 2, sz,
                               [u |-> << 0 >>, bOverflow |-> FALSE,
                                eErr |-> FALSE])
            IN done((IF c0 = CH_MINUS THEN << CH_MINUS >> ELSE <<>>)
                    \o (IF st.bOverflow THEN Str_9e999
                        ELSE U64Text(st.u)),
                    st.eErr)
     ELSE IF kind = JSONB_FLOAT5
       THEN LET neg == Rd(a, i + n) = CH_MINUS
                k == IF neg THEN 1 ELSE 0
            IN done((IF neg THEN << CH_MINUS >> ELSE <<>>)
                    \o (IF Rd(a, i + n + k) = CH_DOT THEN << CH_0 >> ELSE <<>>)
                    \o Float5Loop(a, i + n, k, sz), FALSE)
     ELSE IF kind = JSONB_TEXTJ
       THEN done(<< CH_DQUOTE >> \o Bytes(a, i + n, sz) \o << CH_DQUOTE >>,
                 FALSE)
     ELSE IF kind = JSONB_TEXT \/ kind = JSONB_TEXT5
       THEN LET b == Text5Body(a, i + n, sz)
            IN done(<< CH_DQUOTE >> \o b.out \o << CH_DQUOTE >>, b.eErr)
     ELSE IF kind = JSONB_TEXTRAW
       THEN done(jsonAppendString(Bytes(a, i + n, sz)), FALSE)
     ELSE IF kind = JSONB_ARRAY \/ kind = JSONB_OBJECT
       THEN LET isObj == kind = JSONB_OBJECT
                st == XlateChildren(pParse, i + n, i + n + sz,
                        [out |-> <<>>, eErr |-> FALSE, x |-> 0,
                         isObj |-> isObj])
                body == IF sz > 0 /\ st.out # <<>>
                          THEN SubSeq(st.out, 1, Len(st.out) - 1) ELSE st.out
            IN done(<< IF isObj THEN 123 ELSE 91 >> \o body
                    \o << IF isObj THEN 125 ELSE 93 >>,
                    st.eErr \/ (isObj /\ st.x % 2 = 1))
     ELSE done(<<>>, TRUE)

(***************************************************************************)
(* MergePatch: jsonMergePatchBlob                                          *)
(***************************************************************************)
\* The inner while( iTCursor<iTEnd ) loop: look in the target object for
\* the label that equals the patch label at iPLabel.
\*   t = "hit"  : labels match (the loop was left by break)
\*   t = "end"  : no label matches, iTCursor >= iTEnd
\*   t = "rc"   : the function returns rc from inside the loop
RECURSIVE TargetScan(_,_,_,_,_)

TargetNone ==
  [t |-> "end", rc |-> 0, iTLabel |-> 0, nTLabel |-> 0, szTLabel |-> 0,
   iTValue |-> 0, nTValue |-> 0, szTValue |-> 0]

\* labels of different kinds ("Should rarely happen"): s1 and s2 are the
\* two labels rendered as text
TargetCompareText(s1, s2) ==
  IF s1.eErr THEN "oom" ELSE IF s2.eErr THEN "oom"
  ELSE IF s1.out = s2.out THEN "equal" ELSE "differ"

\* labels of the same kind compared by their sizes alone
TargetCompareSizeOnly(pTarget, iTCursor, pPatch, iPLabel, rl, pl) ==
  IF Rd(pTarget.aBlob, iTCursor) % 16 = Rd(pPatch.aBlob, iPLabel) % 16
    THEN IF rl.sz = pl.sz THEN "equal" ELSE "differ"
    ELSE TargetCompareText(jsonXlateBlobToText(pTarget, iTCursor),
                           jsonXlateBlobToText(pPatch, iPLabel))

\* if( eTLabel==ePLabel ){ memcmp of the payloads }else{ compare as text }
\* rl and pl are the sizes of the target label and of the patch label
TargetCompare(pTarget, iTCursor, pPatch, iPLabel, rl, pl) ==
  IF Rd(pTarget.aBlob, iTCursor) % 16 = Rd(pPatch.aBlob, iPLabel) % 16
    THEN IF rl.sz = pl.sz
            /\ Bytes(pTarget.aBlob, iTCursor + rl.n, rl.sz)
               = Bytes(pPatch.aBlob, iPLabel + pl.n, rl.sz)
           THEN "equal" ELSE "differ"
    ELSE TargetCompareText(jsonXlateBlobToText(pTarget, iTCursor),
                           jsonXlateBlobToText(pPatch, iPLabel))

\* rv is the size of the target value at iTValue, cmp the outcome of the
\* comparison of the labels
TargetScanValue(pTarget, iTCursor, iTEnd, pPatch, iPLabel, rl, iTValue, rv, cmp) ==
  IF rv.n = 0 THEN [TargetNone EXCEPT !.t = "rc", !.rc = JSON_MERGE_BADTARGET]
  ELSE IF iTValue + rv.n + rv.sz > iTEnd
    THEN [TargetNone EXCEPT !.t = "rc", !.rc = JSON_MERGE_BADTARGET]
  ELSE IF cmp = "oom"
    THEN [TargetNone EXCEPT !.t = "rc", !.rc = JSON_MERGE_OOM]
  ELSE IF cmp = "equal"
    THEN [t |-> "hit", rc |-> 0, iTLabel |-> iTCursor, nTLabel |-> rl.n,
          szTLabel |-> rl.sz, iTValue |-> iTValue, nTValue |-> rv.n,
          szTValue |-> rv.sz]
  ELSE TargetScan(pTarget, iTValue + rv.n + rv.sz, iTEnd, pPatch, iPLabel)

\* rl is the size of the target label at iTCursor
TargetScanLabel(pTarget, iTCursor, iTEnd, pPatch, iPLabel, rl) ==
  IF Rd(pTarget.aBlob, iTCursor) % 16 < JSONB_TEXT
     \/ Rd(pTarget.aBlob, iTCursor) % 16 > JSONB_TEXTRAW
    THEN [TargetNone EXCEPT !.t = "rc", !.rc = JSON_MERGE_BADTARGET]
  ELSE IF rl.n = 0
    THEN [TargetNone EXCEPT !.t = "rc", !.rc = JSON_MERGE_BADTARGET]
  ELSE IF iTCursor + rl.n + rl.sz >= iTEnd
    THEN [TargetNone EXCEPT !.t = "rc", !.rc = JSON_MERGE_BADTARGET]
  ELSE TargetScanValue(pTarget, iTCursor, iTEnd, pPatch, iPLabel, rl,
         iTCursor + rl.n + rl.sz,
         jsonbPayloadSize(pTarget, iTCursor + rl.n + rl.sz),
         TargetCompare(pTarget, iTCursor, pPatch, iPLabel, rl,
                       jsonbPayloadSize(pPatch, iPLabel)))

TargetScan(pTarget, iTCursor, iTEnd, pPatch, iPLabel) ==
  IF iTCursor >= iTEnd THEN TargetNone
  ELSE TargetScanLabel(pTarget, iTCursor, iTEnd, pPatch, iPLabel,
                       jsonbPayloadSize(pTarget, iTCursor))

RECURSIVE jsonMergePatchBlob(_,_,_,_)
RECURSIVE MergeLoop(_,_,_,_,_,_,_)

\* return pTarget->oom ? JSON_MERGE_OOM : JSON_MERGE_OK;
MergeReturn(q) ==
  [p |-> q, rc |-> IF q.oom THEN JSON_MERGE_OOM ELSE JSON_MERGE_OK]

\* The next iteration of the while( iPCursor<iPEnd ) loop; c holds the
\* loop's variables that the iteration does not change.
MergeNext(q, pPatch, c) ==
  MergeLoop(q, c.iTarget, pPatch, c.iPNext, c.iPEnd, c.iTStart, c.iTEndBE)

\* rc = jsonMergePatchBlob(...); if( rc ) return rc;
\* pTarget->delta += savedDelta;
MergeSubReturn(r, savedDelta, pPatch, c) ==
  IF r.rc # 0 THEN r
  ELSE MergeNext([r.p EXCEPT !.delta = @ + savedDelta], pPatch, c)

\* savedDelta = pTarget->delta; pTarget->delta = 0;
\* rc = jsonMergePatchBlob(pTarget, iT, pPatch, iPValue);
MergeSub(q, iT, pPatch, iPValue, c) ==
  MergeSubReturn(jsonMergePatchBlob([q EXCEPT !.delta = 0], iT, pPatch,
                                    iPValue),
                 q.delta, pPatch, c)

\* Patch value is NULL: q is pTarget after the jsonBlobEdit that deletes
\* the target's label and value
MergeDelete(q, pPatch, c) ==
  IF q.oom THEN [p |-> q, rc |-> JSON_MERGE_OOM] ELSE MergeNext(q, pPatch, c)

\* Algorithm line 14: q is pTarget after the jsonBlobEdit that opens the
\* gap at iTEnd; the label and the value of the patch are copied into it
MergeAppendValue(q, iTEnd, pPatch, zLabel, zValue, c) ==
  IF q.oom THEN [p |-> q, rc |-> JSON_MERGE_OOM]
  ELSE MergeNext([q EXCEPT !.aBlob = memcpy(memcpy(@, iTEnd, zLabel),
                                            iTEnd + Len(zLabel), zValue)],
                 pPatch, c)

\* The patch value is an object that the target lacks: the label and a
\* null (0x00) are copied into the gap and the patch value merged into it
MergeAppendObject(q, iTEnd, pPatch, zLabel, iPValue, c) ==
  IF q.oom THEN [p |-> q, rc |-> JSON_MERGE_OOM]
  ELSE MergeSub([q EXCEPT !.aBlob = memcpy(memcpy(@, iTEnd, zLabel),
                                           iTEnd + Len(zLabel), << 0 >>)],
                iTEnd + Len(zLabel), pPatch, iPValue, c)

\* Algorithm lines 09..15 for the patch member (label at iPLabel of size
\* rl, value at iPValue of size rv); ts is the outcome of the search of
\* the label in the target.
MergeApply(pTarget, pPatch, iPLabel, rl, iPValue, rv, iTEnd, ts, c) ==
  IF ts.t = "rc" THEN [p |-> pTarget, rc |-> ts.rc]
  ELSE IF ts.t = "hit"
    THEN IF Rd(pPatch.aBlob, iPValue) % 16 = 0
           THEN MergeDelete(
                  jsonBlobEdit(pTarget, ts.iTLabel,
                               ts.nTLabel + ts.szTLabel + ts.nTValue
                               + ts.szTValue, <<>>, 0, FALSE),
                  pPatch, c)
           ELSE MergeSub(pTarget, ts.iTValue, pPatch, iPValue, c)
  ELSE IF Rd(pPatch.aBlob, iPValue) % 16 > 0
    THEN IF Rd(pPatch.aBlob, iPValue) % 16 # JSONB_OBJECT
           THEN MergeAppendValue(
                  jsonBlobEdit(pTarget, iTEnd, 0, <<>>,
                               rv.sz + rv.n + rl.sz + rl.n, FALSE),
                  iTEnd, pPatch,
                  Bytes(pPatch.aBlob, iPLabel, rl.sz + rl.n),
                  Bytes(pPatch.aBlob, iPValue, rv.sz + rv.n), c)
           ELSE MergeAppendObject(
                  jsonBlobEdit(pTarget, iTEnd, 0, <<>>, rl.sz + rl.n + 1,
                               FALSE),
                  iTEnd, pPatch,
                  Bytes(pPatch.aBlob, iPLabel, rl.sz + rl.n), iPValue, c)
  ELSE MergeNext(pTarget, pPatch, c)

\* The checks of the patch member at iPCursor; rl and rv are the sizes of
\* its label and of its value (at iPValue).
MergeMember(pTarget, iTarget, pPatch, iPCursor, iPEnd, iTStart, iTEndBE, rl, iPValue, rv) ==
  IF Rd(pPatch.aBlob, iPCursor) % 16 < JSONB_TEXT
     \/ Rd(pPatch.aBlob, iPCursor) % 16 > JSONB_TEXTRAW
    THEN [p |-> pTarget, rc |-> JSON_MERGE_BADPATCH]
  ELSE IF rl.n = 0 THEN [p |-> pTarget, rc |-> JSON_MERGE_BADPATCH]
  ELSE IF rv.n = 0 THEN [p |-> pTarget, rc |-> JSON_MERGE_BADPATCH]
  ELSE IF iPValue + rv.n + rv.sz > iPEnd
    THEN [p |-> pTarget, rc |-> JSON_MERGE_BADPATCH]
  ELSE MergeApply(pTarget, pPatch, iPCursor, rl, iPValue, rv,
         iTEndBE + pTarget.delta,
         TargetScan(pTarget, iTStart, iTEndBE + pTarget.delta, pPatch,
                    iPCursor),
         [iTarget |-> iTarget, iPNext |-> iPValue + rv.n + rv.sz,
          iPEnd |-> iPEnd, iTStart |-> iTStart, iTEndBE |-> iTEndBE])

\* rl is the size of the patch label at iPCursor
MergeLabel(pTarget, iTarget, pPatch, iPCursor, iPEnd, iTStart, iTEndBE, rl) ==
  MergeMember(pTarget, iTarget, pPatch, iPCursor, iPEnd, iTStart, iTEndBE,
              rl, iPCursor + rl.n + rl.sz,
              jsonbPayloadSize(pPatch, iPCursor + rl.n + rl.sz))

\* The while( iPCursor<iPEnd ) loop over the patch's label/value pairs and
\* the code after it.
MergeLoop(pTarget, iTarget, pPatch, iPCursor, iPEnd, iTStart, iTEndBE) ==
  IF iPCursor >= iPEnd THEN MergeReturn(AdjustIfDelta(pTarget, iTarget))
  ELSE MergeLabel(pTarget, iTarget, pPatch, iPCursor, iPEnd, iTStart,
                  iTEndBE, jsonbPayloadSize(pPatch, iPCursor))

\* pTarget->aBlob[iTarget] = (x & 0xf0) | JSONB_OBJECT; q is pTarget after
\* jsonBlobEdit(pTarget, iTarget+n, sz, 0, 0)
MergeSetObject(q, iTarget) ==
  [q EXCEPT !.aBlob = memcpy(@, iTarget,
                             << (Rd(q.aBlob, iTarget) \div 16) * 16
                                + JSONB_OBJECT >>),
            !.extWrite = @ \/ (q.nBlobAlloc = 0)]

\* algorithm line 05 left out: a target that is not an object is merged
\* into as it is
MergeTargetKept(pTarget, iTarget, rt) == pTarget

\* Algorithm line 05: a target that is not an object becomes the empty
\* object; rt is jsonbPayloadSize(pTarget, iTarget)
MergeTarget(pTarget, iTarget, rt) ==
  IF Rd(pTarget.aBlob, iTarget) % 16 # JSONB_OBJECT
    THEN MergeSetObject(jsonBlobEdit(pTarget, iTarget + rt.n, rt.sz,
                                     <<>>, 0, FALSE),
                        iTarget)
    ELSE pTarget

\* rp and rt are the sizes of the patch at iPatch and of the target t1 at
\* iTarget
MergeObjects(t1, iTarget, pPatch, iPatch, rp, rt) ==
  IF rp.n = 0 THEN [p |-> t1, rc |-> JSON_MERGE_BADPATCH]
  ELSE IF rt.n = 0 THEN [p |-> t1, rc |-> JSON_MERGE_BADTARGET]
  ELSE MergeLoop(t1, iTarget, pPatch, iPatch + rp.n, iPatch + rp.n + rp.sz,
                 iTarget + rt.n, iTarget + rt.n + rt.sz)

\* t1 is the target after algorithm line 05
MergeInto(t1, iTarget, pPatch, iPatch, rp) ==
  MergeObjects(t1, iTarget, pPatch, iPatch, rp, jsonbPayloadSize(t1, iTarget))

\* rp and rt are the sizes of the patch and of the target on entry
MergeSized(pTarget, iTarget, pPatch, iPatch, rp, rt) ==
  IF Rd(pPatch.aBlob, iPatch) % 16 # JSONB_OBJECT
    THEN MergeReturn(jsonBlobEdit(pTarget, iTarget, rt.n + rt.sz,
                                  Bytes(pPatch.aBlob, iPatch, rp.n + rp.sz),
                                  rp.n + rp.sz, TRUE))
    ELSE MergeInto(MergeTarget(pTarget, iTarget, rt), iTarget, pPatch,
                   iPatch, rp)

jsonMergePatchBlob(pTarget, iTarget, pPatch, iPatch) ==
  MergeSized(pTarget, iTarget, pPatch, iPatch,
             jsonbPayloadSize(pPatch, iPatch),
             jsonbPayloadSize(pTarget, iTarget))

(***************************************************************************)
(* SQL values and argument coercion                                        *)
(*   An SQL value is [type |-> "null" | "integer" | "text" | "blob",       *)
(*   z |-> its bytes (sqlite3_value_text / sqlite3_value_blob)].           *)
(***************************************************************************)
SqlNull == [type |-> "null", z |-> <<>>]
SqlInt(z) == [type |-> "integer", z |-> z]
SqlText(z) == [type |-> "text", z |-> z]
SqlBlob(z) == [type |-> "blob", z |-> z]

\* Result of an SQL function call
ResultNull == [type |-> "null", blob |-> <<>>, msg |-> ""]
ResultBlob(b) == [type |-> "blob", blob |-> b, msg |-> ""]
ResultError(msg) == [type |-> "error", blob |-> <<>>, msg |-> msg]

jsonFuncArgMightBeBinary(pJson) ==
  LET aBlob == pJson.z
      r == PayloadSizeAt(aBlob, Len(aBlob), 0, 0)
  IN /\ pJson.type = "blob"
     /\ Len(aBlob) >= 1
     /\ Rd(aBlob, 0) % 16 <= JSONB_OBJECT
     /\ r.n # 0
     /\ r.sz + r.n = Len(aBlob)
     /\ ~(Rd(aBlob, 0) % 16 <= JSONB_FALSE /\ r.sz > 0)

\* Returns [p |-> the JsonParse filled in, msg |-> error message or ""]
\* (text values carrying the JSON subtype are not among the arguments
\* modelled)
jsonFunctionArgToBlob(pArg, nMalloc, failAt) ==
  LET p0 == NewParse(<<>>, nMalloc, failAt)
      p == IF pArg.type = "null" THEN [p0 EXCEPT !.aBlob = << 0 >>]
           ELSE IF pArg.type = "blob" THEN [p0 EXCEPT !.aBlob = pArg.z]
           ELSE IF pArg.type = "text"
             THEN jsonBlobAppendNode(p0, JSONB_TEXTRAW, Len(pArg.z), pArg.z,
                                     TRUE)
           ELSE jsonBlobAppendNode(p0, JSONB_INT, Len(pArg.z), pArg.z, TRUE)
  IN IF pArg.type = "blob" /\ ~jsonFuncArgMightBeBinary(pArg)
       THEN [p |-> p0, msg |-> "JSON cannot hold BLOB values"]
     ELSE IF p.oom THEN [p |-> p, msg |-> "out of memory"]
     ELSE [p |-> p, msg |-> ""]

\* the parse of a BLOB argument handed out as it is, editable or not
jsonParseFuncArgInPlace(pArg, editable, failAt) ==
  LET p0 == NewParse(pArg.z, 1, failAt)
      r == PayloadSizeAt(pArg.z, Len(pArg.z), 0, 0)
  IN IF pArg.type = "null" THEN [p |-> p0, ok |-> FALSE, msg |-> ""]
     ELSE IF failAt = 1 THEN [p |-> p0, ok |-> FALSE, msg |-> "out of memory"]
     ELSE IF Len(pArg.z) = 0 \/ Rd(pArg.z, 0) % 16 > JSONB_OBJECT
             \/ r.n = 0 \/ r.sz + r.n # Len(pArg.z)
             \/ (Rd(pArg.z, 0) % 16 <= JSONB_FALSE /\ r.sz > 0)
       THEN [p |-> p0, ok |-> FALSE, msg |-> "malformed JSON"]
     ELSE [p |-> p0, ok |-> TRUE, msg |-> ""]

\* jsonParseFuncArg for an SQL NULL or BLOB argument (flgs: editable).
\* Returns [p |-> parse, ok |-> a parse is returned, msg |-> error or ""].
jsonParseFuncArg(pArg, editable, failAt) ==
  LET p0 == NewParse(pArg.z, 1, failAt)
      r == PayloadSizeAt(pArg.z, Len(pArg.z), 0, 0)
      p1 == IF editable THEN jsonBlobMakeEditable(p0, 0) ELSE p0
  IN IF pArg.type = "null" THEN [p |-> p0, ok |-> FALSE, msg |-> ""]
     ELSE IF failAt = 1 THEN [p |-> p0, ok |-> FALSE, msg |-> "out of memory"]
     ELSE IF Len(pArg.z) = 0
       THEN [p |-> p0, ok |-> FALSE, msg |-> "malformed JSON"]
     ELSE IF Rd(pArg.z, 0) % 16 > JSONB_OBJECT
       THEN [p |-> p0, ok |-> FALSE, msg |-> "malformed JSON"]
     ELSE IF r.n = 0 \/ r.sz + r.n # Len(pArg.z)
             \/ (Rd(pArg.z, 0) % 16 <= JSONB_FALSE /\ r.sz > 0)
       THEN [p |-> p0, ok |-> FALSE, msg |-> "malformed JSON"]
     ELSE IF editable /\ ~IsEditable(p1)
       THEN [p |-> p1, ok |-> FALSE, msg |-> "out of memory"]
     ELSE [p |-> p1, ok |-> TRUE, msg |-> ""]

\* jsonReturnParse for a function registered with JSON_BLOB
jsonReturnParse(p) ==
  IF p.oom THEN ResultError("out of memory") ELSE ResultBlob(p.aBlob)

(***************************************************************************)
(* Edit drivers                                                            *)
(*   A call outcome is [res |-> SQL result, rcs |-> the return codes of    *)
(*   the jsonLookupBlobStep calls made, p |-> the JsonParse at return].    *)
(***************************************************************************)
Outcome(res, rcs, p) == [res |-> res, rcs |-> rcs, p |-> p]

\* jsonInsertIntoBlob_patherror:
InsertPathError(rc) ==
  IF rc = JSON_BLOB_ERROR THEN ResultError("malformed JSON")
  ELSE ResultError("bad JSON path")

\* The for(i=1; i<argc-1; i+=2) loop of jsonInsertIntoBlob; pairs is the
\* sequence of <<path value, content value>> arguments, rc the value of
\* the variable rc on entry to the iteration.
RECURSIVE InsertLoop(_,_,_,_,_,_)

\* the end of an iteration; r is the edit made and its return code
InsertNext(pairs, i, eEdit, rcs, r) ==
  IF r.rc = JSON_BLOB_NOTFOUND
    THEN InsertLoop(r.p, pairs, i + 1, eEdit, r.rc, Append(rcs, r.rc))
  ELSE IF JSON_BLOB_ISERROR(r.rc)
    THEN Outcome(InsertPathError(r.rc), Append(rcs, r.rc), r.p)
  ELSE InsertLoop(r.p, pairs, i + 1, eEdit, r.rc, Append(rcs, r.rc))

\* ax is the value to insert, converted by jsonFunctionArgToBlob; p1 is p
\* after that conversion
InsertValue(p1, pairs, i, eEdit, rcs, zPath, ax) ==
  IF ax.msg # "" THEN Outcome(ResultError(ax.msg), rcs, p1)
  ELSE InsertNext(pairs, i, eEdit, rcs,
         IF zAt(zPath, 1) = CH_NUL
           THEN [p |-> IF eEdit = JEDIT_REPL \/ eEdit = JEDIT_SET
                         THEN jsonBlobEdit(p1, 0, Len(p1.aBlob), ax.p.aBlob,
                                           Len(ax.p.aBlob), TRUE)
                         ELSE p1,
                 rc |-> 0]
           ELSE jsonLookupBlobStep(
                  [p1 EXCEPT !.eEdit = eEdit, !.aIns = ax.p.aBlob,
                             !.delta = 0],
                  0, zFrom(zPath, 1), 0))

InsertArg(p, pairs, i, eEdit, rcs, ax) ==
  InsertValue([p EXCEPT !.nMalloc = ax.p.nMalloc], pairs, i, eEdit, rcs,
              pairs[i][1].z, ax)

InsertLoop(p, pairs, i, eEdit, rc, rcs) ==
  IF i > Len(pairs) THEN Outcome(jsonReturnParse(p), rcs, p)
  ELSE IF pairs[i][1].type = "null"
    THEN InsertLoop(p, pairs, i + 1, eEdit, rc, rcs)
  ELSE IF zAt(pairs[i][1].z, 0) # CH_DOLLAR
    THEN Outcome(InsertPathError(rc), rcs, p)
  ELSE InsertArg(p, pairs, i, eEdit, rcs,
                 jsonFunctionArgToBlob(pairs[i][2], p.nMalloc, p.failAt))

\* a is the outcome of jsonParseFuncArg(ctx, argv[0], flgs)
InsertParsed(a, pairs, eEdit) ==
  IF ~a.ok
    THEN Outcome(IF a.msg = "" THEN ResultNull ELSE ResultError(a.msg),
                 <<>>, a.p)
    ELSE InsertLoop(a.p, pairs, 1, eEdit, 0, <<>>)

\* the loop stops after the first (path, value) pair
jsonInsertIntoBlobFirstPair(argv0, pairs, eEdit, failAt) ==
  InsertParsed(jsonParseFuncArg(argv0, Len(pairs) > 0, failAt),
               SubSeq(pairs, 1, 1), eEdit)

jsonInsertIntoBlob(argv0, pairs, eEdit, failAt) ==
  InsertParsed(jsonParseFuncArg(argv0, Len(pairs) > 0, failAt), pairs, eEdit)

jsonReplaceFunc(argv0, pairs, failAt) ==
  jsonInsertIntoBlob(argv0, pairs, JEDIT_REPL, failAt)

\* the JSON_ISSET flag is not looked at
jsonSetFuncAlwaysInsert(argv0, pairs, bIsSet, failAt) ==
  jsonInsertIntoBlob(argv0, pairs, JEDIT_INS, failAt)

\* bIsSet is the JSON_ISSET flag of the function's user data
jsonSetFunc(argv0, pairs, bIsSet, failAt) ==
  jsonInsertIntoBlob(argv0, pairs, IF bIsSet THEN JEDIT_SET ELSE JEDIT_INS,
                     failAt)

\* The for(i=1; i<argc; i++) loop of jsonRemoveFunc
RECURSIVE RemoveLoop(_,_,_,_)

\* the end of an iteration; r is the outcome of jsonLookupBlobStep
RemoveNext(paths, i, rcs, r) ==
  IF r.rc = JSON_BLOB_NOTFOUND
    THEN RemoveLoop(r.p, paths, i + 1, Append(rcs, r.rc))
  ELSE IF JSON_BLOB_ISERROR(r.rc)
    THEN Outcome(ResultError("JSON path error"), Append(rcs, r.rc), r.p)
  ELSE RemoveLoop(r.p, paths, i + 1, Append(rcs, r.rc))

RemoveLoop(p, paths, i, rcs) ==
  IF i > Len(paths) THEN Outcome(jsonReturnParse(p), rcs, p)
  ELSE IF paths[i].type = "null" THEN Outcome(ResultNull, rcs, p)
  ELSE IF zAt(paths[i].z, 0) # CH_DOLLAR
    THEN Outcome(ResultError("JSON path error"), rcs, p)
  ELSE IF zAt(paths[i].z, 1) = CH_NUL THEN Outcome(ResultNull, rcs, p)
  ELSE RemoveNext(paths, i, rcs,
         jsonLookupBlobStep([p EXCEPT !.eEdit = JEDIT_DEL, !.delta = 0],
                            0, zFrom(paths[i].z, 1), 0))

\* a is the outcome of jsonParseFuncArg(ctx, argv[0], JSON_EDITABLE)
RemoveParsed(a, paths) ==
  IF ~a.ok
    THEN Outcome(IF a.msg = "" THEN ResultNull ELSE ResultError(a.msg),
                 <<>>, a.p)
    ELSE RemoveLoop(a.p, paths, 1, <<>>)

jsonRemoveFunc(argv0, paths, failAt) ==
  RemoveParsed(jsonParseFuncArg(argv0, TRUE, failAt), paths)

\* the result of json_patch() from the outcome m of jsonMergePatchBlob
PatchResult(m) ==
  IF m.rc = JSON_MERGE_OK
    THEN Outcome(jsonReturnParse(m.p), << m.rc >>, m.p)
  ELSE IF m.rc = JSON_MERGE_OOM
    THEN Outcome(ResultError("out of memory"), << m.rc >>, m.p)
  ELSE Outcome(ResultError("malformed JSON"), << m.rc >>, m.p)

\* a patch with an empty body returns the target as it is
PatchParsedSkipEmpty(t, pp) ==
  IF ~pp.ok
    THEN Outcome(IF pp.msg = "" THEN ResultNull ELSE ResultError(pp.msg),
                 <<>>, t.p)
  ELSE IF jsonbPayloadSize(pp.p, 0).sz = 0
    THEN PatchResult([p |-> t.p, rc |-> JSON_MERGE_OK])
  ELSE PatchResult(jsonMergePatchBlob([t.p EXCEPT !.nMalloc = @ + 1], 0,
                                      pp.p, 0))

\* t and pp are the outcomes of jsonParseFuncArg for the target and for
\* the patch
PatchParsed(t, pp) ==
  IF ~pp.ok
    THEN Outcome(IF pp.msg = "" THEN ResultNull ELSE ResultError(pp.msg),
                 <<>>, t.p)
  ELSE PatchResult(jsonMergePatchBlob([t.p EXCEPT !.nMalloc = @ + 1], 0,
                                      pp.p, 0))

\* the patch is parsed after the target: its JsonParse object is the next
\* allocation of the call
PatchTarget(t, argv1, failAt) ==
  IF ~t.ok
    THEN Outcome(IF t.msg = "" THEN ResultNull ELSE ResultError(t.msg),
                 <<>>, t.p)
    ELSE PatchParsed(t, jsonParseFuncArg(argv1, FALSE,
                          IF failAt = t.p.nMalloc + 1 THEN 1 ELSE 0))

jsonPatchFunc(argv0, argv1, failAt) ==
  PatchTarget(jsonParseFuncArg(argv0, TRUE, failAt), argv1, failAt)

(***************************************************************************)
(* Text parser: jsonXlateTextToBlob                                        *)
(*   The text is a sequence of bytes followed by a NUL (zAt).  The parse   *)
(*   carries, beside the blob buffer, the nesting depth (a u16), the       *)
(*   non-standard-feature flag and the error offset.                       *)
(***************************************************************************)
JSON_MAX_DEPTH == 1000

CH_TAB == 9
CH_LF == 10
CH_CR == 13
CH_SPACE == 32
CH_SQUOTE == 39
CH_STAR == 42
CH_PLUS == 43
CH_COMMA == 44
CH_SLASH == 47
CH_COLON == 58
CH_LBRACE == 123
CH_RBRACE == 125

\* a JsonParse that is given the text z to parse
TextParse(z, nMalloc, failAt) ==
  [ zJson |-> z, nJson |-> Len(z), aBlob |-> <<>>, nBlobAlloc |-> 0,
    oom |-> FALSE, delta |-> 0, eEdit |-> 0, aIns |-> <<>>, iLabel |-> 0,
    iDepth |-> 0, hasNonstd |-> FALSE, iErr |-> 0,
    nMalloc |-> nMalloc, failAt |-> failAt, extWrite |-> FALSE,
    heapOvf |-> FALSE ]

\* the space character alone
jsonIsspaceBlank(c) == c = CH_SPACE

jsonIsspace(c) == c = CH_TAB \/ c = CH_LF \/ c = CH_CR \/ c = CH_SPACE

\* letters and digits of ASCII
sqlite3Isalnum(c) ==
  \/ sqlite3Isdigit(c)
  \/ (c >= 65 /\ c <= 90)
  \/ (c >= 97 /\ c <= 122)

\* a letter, '_', '$' or a byte of a multi-byte character
sqlite3JsonId1(c) ==
  \/ (c >= 65 /\ c <= 90)
  \/ (c >= 97 /\ c <= 122)
  \/ c = 95 \/ c = 36 \/ c >= 128

sqlite3JsonId2(c) == sqlite3JsonId1(c) \/ sqlite3Isdigit(c)

sqlite3Tolower(c) == IF c >= 65 /\ c <= 90 THEN c + 32 ELSE c

\* sqlite3StrNICmp(&z[i], zMatch, Len(zMatch)) == 0
sqlite3StrNICmp(z, i, zMatch) ==
  \A k \in 1..Len(zMatch) :
    sqlite3Tolower(zAt(z, i + k - 1)) = sqlite3Tolower(zMatch[k])

\* strncmp(z+i, zMatch, Len(zMatch)) == 0
strncmp(z, i, zMatch) == \A k \in 1..Len(zMatch) : zAt(z, i + k - 1) = zMatch[k]

jsonIs2Hex(z, i) == sqlite3Isxdigit(zAt(z, i)) /\ sqlite3Isxdigit(zAt(z, i + 1))

jsonIs4Hex(z, i) == jsonIs2Hex(z, i) /\ jsonIs2Hex(z, i + 2)

\* jsonIs4HexB(&z[i], &op): TRUE when it sets op to JSONB_TEXTJ
jsonIs4HexB(z, i) ==
  /\ zAt(z, i) = 117
  /\ sqlite3Isxdigit(zAt(z, i + 1)) /\ sqlite3Isxdigit(zAt(z, i + 2))
  /\ sqlite3Isxdigit(zAt(z, i + 3)) /\ sqlite3Isxdigit(zAt(z, i + 4))

\* for(j=n+3; z[j]!='/' || z[j-1]!='*'; j++): the j at which the loop
\* ends, or -1 when it meets the NUL
RECURSIVE BlockCommentEnd(_,_)
BlockCommentEnd(z, j) ==
  IF zAt(z, j) = CH_SLASH /\ zAt(z, j - 1) = CH_STAR THEN j
  ELSE IF zAt(z, j) = CH_NUL THEN -1
  ELSE BlockCommentEnd(z, j + 1)

\* for(j=n+2; (c = z[j])!=0; j++): the j at which the loop ends
RECURSIVE LineCommentEnd(_,_)
LineCommentEnd(z, j) ==
  IF zAt(z, j) = CH_NUL THEN j
  ELSE IF zAt(z, j) = CH_LF \/ zAt(z, j) = CH_CR THEN j
  ELSE IF zAt(z, j) = 226 /\ zAt(z, j + 1) = 128
          /\ (zAt(z, j + 2) = 168 \/ zAt(z, j + 2) = 169)
    THEN j + 2
  ELSE LineCommentEnd(z, j + 1)

\* json5Whitespace(&z[i]) = Whitespace5(z, i, 0)
RECURSIVE Whitespace5(_,_,_)
Whitespace5Slash(z, i, n, jb, jl) ==
  IF zAt(z, i + n + 1) = CH_STAR /\ zAt(z, i + n + 2) # CH_NUL
    THEN IF jb = -1 THEN n ELSE Whitespace5(z, i, jb + 1 - i)
  ELSE IF zAt(z, i + n + 1) = CH_SLASH
    THEN Whitespace5(z, i, IF zAt(z, jl) # CH_NUL THEN jl + 1 - i ELSE jl - i)
  ELSE n

Whitespace5(z, i, n) ==
  LET c == zAt(z, i + n)
      c1 == zAt(z, i + n + 1)
      c2 == zAt(z, i + n + 2)
  IN IF c = 9 \/ c = 10 \/ c = 11 \/ c = 12 \/ c = 13 \/ c = 32
       THEN Whitespace5(z, i, n + 1)
     ELSE IF c = CH_SLASH
       THEN Whitespace5Slash(z, i, n, BlockCommentEnd(z, i + n + 3),
                             LineCommentEnd(z, i + n + 2))
     ELSE IF c = 194
       THEN IF c1 = 160 THEN Whitespace5(z, i, n + 2) ELSE n
     ELSE IF c = 225
       THEN IF c1 = 154 /\ c2 = 128 THEN Whitespace5(z, i, n + 3) ELSE n
     ELSE IF c = 226
       THEN IF c1 = 128
              THEN IF c2 < 128 THEN n
                   ELSE IF c2 <= 138 \/ c2 = 168 \/ c2 = 169 \/ c2 = 175
                     THEN Whitespace5(z, i, n + 3)
                   ELSE n
            ELSE IF c1 = 129 /\ c2 = 159 THEN Whitespace5(z, i, n + 3)
            ELSE n
     ELSE IF c = 227
       THEN IF c1 = 128 /\ c2 = 128 THEN Whitespace5(z, i, n + 3) ELSE n
     ELSE IF c = 239
       THEN IF c1 = 187 /\ c2 = 191 THEN Whitespace5(z, i, n + 3) ELSE n
     ELSE n

json5Whitespace(z, i) == Whitespace5(z, i, 0)

\* do{ i++; }while( jsonIsspace(z[i]) ), entered at a space
RECURSIVE SkipSpaces(_,_)
SkipSpaces(z, i) ==
  IF jsonIsspace(zAt(z, i + 1)) THEN SkipSpaces(z, i + 1) ELSE i + 1

\* jsonBlobAppendOneByte(pParse, c)
jsonBlobAppendOneByte(pParse, c) ==
  IF Len(pParse.aBlob) >= pParse.nBlobAlloc
    THEN IF AllocFails(pParse) THEN jsonBlobExpand(pParse, Len(pParse.aBlob) + 1)
         ELSE [jsonBlobExpand(pParse, Len(pParse.aBlob) + 1)
                 EXCEPT !.aBlob = Append(@, c)]
    ELSE [pParse EXCEPT !.aBlob = Append(@, c)]

\* pParse->iErr = i; return -1;
XlateError(pParse, i) == [p |-> [pParse EXCEPT !.iErr = i], x |-> -1]

\* return x;
XlateReturn(pParse, x) == [p |-> pParse, x |-> x]

\* pParse->iErr = i; return x;   (the delimiters '}' ']' ',' ':')
XlateDelimiter(pParse, i, x) == [p |-> [pParse EXCEPT !.iErr = i], x |-> x]

\* The loop of parse_string from offset j on; i is the offset of the
\* opening delimiter cDelim.
RECURSIVE StringLoop(_,_,_,_,_)
\* the character c = z[j] that follows a backslash
StringEscape(pParse, i, j, cDelim, opcode) ==
  LET z == pParse.zJson
      c == zAt(z, j)
  IN IF c = CH_DQUOTE \/ c = CH_BACKSLASH \/ c = CH_SLASH \/ c = 98
        \/ c = 102 \/ c = 110 \/ c = 114 \/ c = 116
        \/ (c = 117 /\ jsonIs4Hex(z, j + 1))
       THEN StringLoop(pParse, i, j + 1, cDelim,
                       IF opcode = JSONB_TEXT THEN JSONB_TEXTJ ELSE opcode)
     ELSE IF c = CH_SQUOTE \/ c = CH_0 \/ c = 118 \/ c = CH_LF
             \/ (c = 226 /\ zAt(z, j + 1) = 128
                 /\ (zAt(z, j + 2) = 168 \/ zAt(z, j + 2) = 169))
             \/ (c = 120 /\ jsonIs2Hex(z, j + 1))
       THEN StringLoop([pParse EXCEPT !.hasNonstd = TRUE], i, j + 1, cDelim,
                       JSONB_TEXT5)
     ELSE IF c = CH_CR
       THEN StringLoop([pParse EXCEPT !.hasNonstd = TRUE], i,
                       (IF zAt(z, j + 1) = CH_LF THEN j + 1 ELSE j) + 1,
                       cDelim, JSONB_TEXT5)
     ELSE XlateError(pParse, j)

\* c = z[j] is the first character that jsonIsOk[] does not pass
StringChar(pParse, i, j, cDelim, opcode) ==
  IF zAt(pParse.zJson, j) = cDelim
    THEN XlateReturn(jsonBlobAppendNode(pParse, opcode, j - 1 - i,
                                        Bytes(pParse.zJson, i + 1, j - 1 - i),
                                        TRUE),
                     j + 1)
  ELSE IF zAt(pParse.zJson, j) = CH_BACKSLASH
    THEN StringEscape(pParse, i, j + 1, cDelim, opcode)
  ELSE IF zAt(pParse.zJson, j) <= 31 THEN XlateError(pParse, j)
  ELSE StringLoop(pParse, i, j + 1, cDelim, opcode)

StringLoop(pParse, i, j, cDelim, opcode) ==
  IF jsonIsOk(zAt(pParse.zJson, j))
    THEN IF jsonIsOk(zAt(pParse.zJson, j + 1))
           THEN StringLoop(pParse, i, j + 2, cDelim, opcode)
           ELSE StringChar(pParse, i, j + 1, cDelim, opcode)
    ELSE StringChar(pParse, i, j, cDelim, opcode)

\* case '"' and case '\'': a string that opens at offset i
XlateString(pParse, i) ==
  StringLoop(IF zAt(pParse.zJson, i) = CH_SQUOTE
               THEN [pParse EXCEPT !.hasNonstd = TRUE] ELSE pParse,
             i, i + 1, zAt(pParse.zJson, i), JSONB_TEXT)

\* case 't', 'f' and the first test of case 'n': the literal zLit
XlateLiteral(pParse, i, zLit, eType) ==
  IF strncmp(pParse.zJson, i, zLit)
     /\ ~sqlite3Isalnum(zAt(pParse.zJson, i + Len(zLit)))
    THEN XlateReturn(jsonBlobAppendOneByte(pParse, eType), i + Len(zLit))
    ELSE XlateError(pParse, i)

\* aNanInfName[]
aNanInfName ==
  << [c1 |-> 105, c2 |-> 73, eType |-> JSONB_FLOAT, zMatch |-> << 105, 110, 102 >>],
     [c1 |-> 105, c2 |-> 73, eType |-> JSONB_FLOAT,
      zMatch |-> << 105, 110, 102, 105, 110, 105, 116, 121 >>],
     [c1 |-> 110, c2 |-> 78, eType |-> JSONB_NULL, zMatch |-> << 78, 97, 78 >>],
     [c1 |-> 113, c2 |-> 81, eType |-> JSONB_NULL, zMatch |-> << 81, 78, 97, 78 >>],
     [c1 |-> 115, c2 |-> 83, eType |-> JSONB_NULL, zMatch |-> << 83, 78, 97, 78 >>] >>

Str_9e999f == << 57, 101, 57, 57, 57 >>

\* the default case: the names of aNanInfName from entry k on
RECURSIVE XlateNanInf(_,_,_)
XlateNanInf(pParse, i, k) ==
  IF k > Len(aNanInfName) THEN XlateError(pParse, i)
  ELSE IF zAt(pParse.zJson, i) # aNanInfName[k].c1
          /\ zAt(pParse.zJson, i) # aNanInfName[k].c2
    THEN XlateNanInf(pParse, i, k + 1)
  ELSE IF ~sqlite3StrNICmp(pParse.zJson, i, aNanInfName[k].zMatch)
    THEN XlateNanInf(pParse, i, k + 1)
  ELSE IF sqlite3Isalnum(zAt(pParse.zJson, i + Len(aNanInfName[k].zMatch)))
    THEN XlateNanInf(pParse, i, k + 1)
  ELSE XlateReturn(
         [(IF aNanInfName[k].eType = JSONB_FLOAT
             THEN jsonBlobAppendNode(pParse, JSONB_FLOAT, 5, Str_9e999f, TRUE)
             ELSE jsonBlobAppendOneByte(pParse, JSONB_NULL))
            EXCEPT !.hasNonstd = TRUE],
         i + Len(aNanInfName[k].zMatch))

\* t | 0x01 and t | 0x02 for the number flags t (0..3)
Or1(t) == IF t % 2 = 1 THEN t ELSE t + 1
Or2(t) == IF t >= 2 THEN t ELSE t + 2

RECURSIVE XdigitsEnd(_,_)
XdigitsEnd(z, j) == IF sqlite3Isxdigit(zAt(z, j)) THEN XdigitsEnd(z, j + 1) ELSE j

\* the number emitted with its sign
NumberFinishKeepsSign(pParse, i, j, t) ==
  XlateReturn(
    jsonBlobAppendNode(pParse, JSONB_INT + t, j - i,
                       Bytes(pParse.zJson, i, j - i), TRUE),
    j)

\* parse_number_finish: the number is z[i..j-1]
NumberFinish(pParse, i, j, t) ==
  XlateReturn(
    jsonBlobAppendNode(
      pParse, JSONB_INT + t,
      j - (IF zAt(pParse.zJson, i) = CH_PLUS THEN i + 1 ELSE i),
      Bytes(pParse.zJson, IF zAt(pParse.zJson, i) = CH_PLUS THEN i + 1 ELSE i,
            j - (IF zAt(pParse.zJson, i) = CH_PLUS THEN i + 1 ELSE i)),
      TRUE),
    j)

\* if( z[j-1]<'0' ): a number may end in '.' only after a digit (JSON5)
DotBeforeOk(z, i, j) ==
  zAt(z, j - 1) = CH_DOT /\ j - 2 >= i /\ sqlite3Isdigit(zAt(z, j - 2))

\* the loop of parse_number_2 at offset j
RECURSIVE NumberLoop(_,_,_,_,_)
\* the exponent at offset j; q and t are the parse and the flags after the
\* test of the character before the 'e'
NumberExp(q, i, j, t, seenE) ==
  LET z == q.zJson
      j1 == IF zAt(z, j + 1) = CH_PLUS \/ zAt(z, j + 1) = CH_MINUS
              THEN j + 1 ELSE j
  IN IF seenE THEN XlateError(q, j)
     ELSE IF zAt(z, j1 + 1) < CH_0 \/ zAt(z, j1 + 1) > CH_9
       THEN XlateError(q, j1)
     ELSE NumberLoop(q, i, j1 + 1, Or2(t), TRUE)

NumberLoop(pParse, i, j, t, seenE) ==
  LET z == pParse.zJson
      c == zAt(z, j)
  IN IF sqlite3Isdigit(c) THEN NumberLoop(pParse, i, j + 1, t, seenE)
     ELSE IF c = CH_DOT
       THEN IF t >= 2 THEN XlateError(pParse, j)
            ELSE NumberLoop(pParse, i, j + 1, Or2(t), seenE)
     ELSE IF c = 101 \/ c = 69
       THEN IF zAt(z, j - 1) < CH_0
              THEN IF DotBeforeOk(z, i, j)
                     THEN NumberExp([pParse EXCEPT !.hasNonstd = TRUE], i, j,
                                    Or1(t), seenE)
                     ELSE XlateError(pParse, j)
              ELSE NumberExp(pParse, i, j, t, seenE)
     ELSE IF zAt(z, j - 1) < CH_0
       THEN IF DotBeforeOk(z, i, j)
              THEN NumberFinish([pParse EXCEPT !.hasNonstd = TRUE], i, j, Or1(t))
              ELSE XlateError(pParse, j)
     ELSE NumberFinish(pParse, i, j, t)

\* "+Infinity", "-inf", ...: z[i] is the sign
XlateSignedInf(pParse, i) ==
  XlateReturn(
    [(IF zAt(pParse.zJson, i) = CH_MINUS
        THEN jsonBlobAppendNode(pParse, JSONB_FLOAT, 6,
                                << CH_MINUS >> \o Str_9e999f, TRUE)
        ELSE jsonBlobAppendNode(pParse, JSONB_FLOAT, 5, Str_9e999f, TRUE))
       EXCEPT !.hasNonstd = TRUE],
    i + (IF sqlite3StrNICmp(pParse.zJson, i + 4, << 105, 110, 105, 116, 121 >>)
           THEN 9 ELSE 4))

\* parse_number with c = z[i] a sign ('+' or '-')
NumberSigned(pParse, i, t) ==
  LET z == pParse.zJson
  IN IF ~sqlite3Isdigit(zAt(z, i + 1))
       THEN IF (zAt(z, i + 1) = 73 \/ zAt(z, i + 1) = 105)
               /\ sqlite3StrNICmp(z, i + 1, << 105, 110, 102 >>)
              THEN XlateSignedInf(pParse, i)
            ELSE IF zAt(z, i + 1) = CH_DOT
              THEN NumberLoop([pParse EXCEPT !.hasNonstd = TRUE], i, i + 1,
                              Or1(t), FALSE)
            ELSE XlateError(pParse, i)
     ELSE IF zAt(z, i + 1) = CH_0 /\ sqlite3Isdigit(zAt(z, i + 2))
       THEN XlateError(pParse, i + 1)
     ELSE IF zAt(z, i + 1) = CH_0
             /\ (zAt(z, i + 2) = 120 \/ zAt(z, i + 2) = 88)
             /\ sqlite3Isxdigit(zAt(z, i + 3))
       THEN NumberFinish([pParse EXCEPT !.hasNonstd = TRUE], i,
                         XdigitsEnd(z, i + 4), Or1(t))
     ELSE NumberLoop(pParse, i, i + 1, t, FALSE)

\* parse_number: flags t, seenE = 0
XlateNumber(pParse, i, t) ==
  LET z == pParse.zJson
  IN IF zAt(z, i) > CH_0 THEN NumberLoop(pParse, i, i + 1, t, FALSE)
     ELSE IF zAt(z, i) = CH_0
       THEN IF (zAt(z, i + 1) = 120 \/ zAt(z, i + 1) = 88)
               /\ sqlite3Isxdigit(zAt(z, i + 2))
              THEN NumberFinish([pParse EXCEPT !.hasNonstd = TRUE], i,
                                XdigitsEnd(z, i + 3), 1)
            ELSE IF sqlite3Isdigit(zAt(z, i + 1)) THEN XlateError(pParse, i + 1)
            ELSE NumberLoop(pParse, i, i + 1, t, FALSE)
     ELSE NumberSigned(pParse, i, t)

\* The cases of the switch that neither open a container nor restart:
\* z[i] is not '{', '[' or white space.
XlatePrimitive(pParse, i) ==
  LET z == pParse.zJson
      c == zAt(z, i)
  IN IF c = CH_SQUOTE \/ c = CH_DQUOTE THEN XlateString(pParse, i)
     ELSE IF c = 116 THEN XlateLiteral(pParse, i, Str_true, JSONB_TRUE)
     ELSE IF c = 102 THEN XlateLiteral(pParse, i, Str_false, JSONB_FALSE)
     ELSE IF c = CH_PLUS
       THEN XlateNumber([pParse EXCEPT !.hasNonstd = TRUE], i, 0)
     ELSE IF c = CH_DOT
       THEN IF sqlite3Isdigit(zAt(z, i + 1))
              THEN NumberLoop([pParse EXCEPT !.hasNonstd = TRUE], i, i + 1, 3,
                              FALSE)
              ELSE XlateError(pParse, i)
     ELSE IF c = CH_MINUS \/ sqlite3Isdigit(c) THEN XlateNumber(pParse, i, 0)
     ELSE IF c = CH_RBRACE THEN XlateDelimiter(pParse, i, -2)
     ELSE IF c = CH_RBRACKET THEN XlateDelimiter(pParse, i, -3)
     ELSE IF c = CH_COMMA THEN XlateDelimiter(pParse, i, -4)
     ELSE IF c = CH_COLON THEN XlateDelimiter(pParse, i, -5)
     ELSE IF c = CH_NUL THEN XlateReturn(pParse, 0)
     ELSE IF c = 110 /\ strncmp(z, i, Str_null)
             /\ ~sqlite3Isalnum(zAt(z, i + 4))
       THEN XlateReturn(jsonBlobAppendOneByte(pParse, JSONB_NULL), i + 4)
     ELSE XlateNanInf(pParse, i, 1)

(***************************************************************************)
(* The recursion of jsonXlateTextToBlob, one activation per step           *)
(*   A machine m holds the parse p, the stack stk of the activations that  *)
(*   are inside the loop of case '{' or case '[' (each waiting at one of   *)
(*   its calls of jsonXlateTextToBlob), and either the offset i of the     *)
(*   call being entered (pc = "call") or the value x a call returned       *)
(*   (pc = "ret").  The sites of an object: "label" (the call at the top   *)
(*   of the loop), "colon", "value", "osep"; of an array: "elem", "asep".  *)
(***************************************************************************)
XlateMachine(pParse) ==
  [p |-> pParse, stk |-> <<>>, pc |-> "call", i |-> 0, x |-> 0, rc |-> 0,
   msg |-> ""]

Top(m) == m.stk[Len(m.stk)]

Pop(stk) == SubSeq(stk, 1, Len(stk) - 1)

\* x = jsonXlateTextToBlob(pParse, j) from the activation on top of the
\* stack, at its call site k
CallAt(m, pParse, k, j) ==
  [m EXCEPT !.p = pParse, !.pc = "call", !.i = j,
            !.stk[Len(m.stk)] = [@ EXCEPT !.k = k, !.j = j,
                                          !.iBlob = Len(pParse.aBlob)]]

\* the activation on top of the stack returns x
ReturnFrom(m, pParse, x) ==
  [m EXCEPT !.p = pParse, !.pc = "ret", !.x = x, !.stk = Pop(@)]

\* if( x!=-1 ) pParse->iErr = j;  return -1;
ReturnError(m, pParse, x, j) ==
  ReturnFrom(m, IF x # -1 THEN [pParse EXCEPT !.iErr = j] ELSE pParse, -1)

\* jsonBlobChangePayloadSize(pParse, iThis, pParse->nBlob - iStart);
\* pParse->iDepth--;  return j+1;
CloseContainer(m, pParse, j) ==
  ReturnFrom(m,
             [jsonBlobChangePayloadSize(pParse, Top(m).iThis,
                                        Len(pParse.aBlob) - Top(m).iStart).p
                EXCEPT !.iDepth = (@ + 65535) % 65536],
             j + 1)

\* '}' or ']' found where an element could start: a trailing comma is
\* non-standard
CloseAfterComma(m, pParse) ==
  CloseContainer(m,
                 IF Len(pParse.aBlob) # Top(m).iStart
                   THEN [pParse EXCEPT !.hasNonstd = TRUE] ELSE pParse,
                 pParse.iErr)

\* the end k of an unquoted label and its kind op
RECURSIVE IdScan(_,_,_)
IdScan(z, k, op) ==
  IF sqlite3JsonId2(zAt(z, k)) /\ json5Whitespace(z, k) = 0
    THEN IdScan(z, k + 1, op)
  ELSE IF zAt(z, k) = CH_BACKSLASH /\ jsonIs4HexB(z, k + 1)
    THEN IdScan(z, k + 1, JSONB_TEXTJ)
  ELSE [k |-> k, op |-> op]

\* after the label: the checks of the label and the search of the ':'
\* (j is the offset the label was looked for at, x the offset behind it)
ObjectLabelEnd(m, pParse, j, x) ==
  LET z == pParse.zJson
      t == Rd(pParse.aBlob, Top(m).iBlob) % 16
  IN IF pParse.oom THEN ReturnFrom(m, pParse, -1)
     ELSE IF t < JSONB_TEXT \/ t > JSONB_TEXTRAW
       THEN ReturnFrom(m, [pParse EXCEPT !.iErr = j], -1)
     ELSE IF zAt(z, x) = CH_COLON THEN CallAt(m, pParse, "value", x + 1)
     ELSE IF jsonIsspace(zAt(z, x))
       THEN IF zAt(z, SkipSpaces(z, x)) = CH_COLON
              THEN CallAt(m, pParse, "value", SkipSpaces(z, x) + 1)
              ELSE CallAt(m, pParse, "colon", SkipSpaces(z, x))
     ELSE CallAt(m, pParse, "colon", x)

\* the label is not a value: an identifier (JSON5) at j, or an error
ObjectBareLabel(m, pParse, j, x, id) ==
  IF sqlite3JsonId1(zAt(pParse.zJson, j))
     \/ (zAt(pParse.zJson, j) = CH_BACKSLASH /\ jsonIs4HexB(pParse.zJson, j + 1))
    THEN ObjectLabelEnd(
           m,
           [jsonBlobAppendNode(pParse, id.op, id.k - j,
                               Bytes(pParse.zJson, j, id.k - j), TRUE)
              EXCEPT !.hasNonstd = TRUE],
           j, id.k)
    ELSE ReturnError(m, pParse, x, j)

\* x returned to the site "label"
ObjectLabel(m, j) ==
  LET z == m.p.zJson
      j5 == j + json5Whitespace(z, j)
  IN IF m.x <= 0
       THEN IF m.x = -2 THEN CloseAfterComma(m, m.p)
            ELSE ObjectBareLabel(
                   m, m.p, j5, m.x,
                   IdScan(z, j5 + 1,
                          IF zAt(z, j5) = CH_BACKSLASH /\ jsonIs4HexB(z, j5 + 1)
                            THEN JSONB_TEXTJ ELSE JSONB_TEXT))
       ELSE ObjectLabelEnd(m, m.p, j, m.x)

\* x returned to the site "colon"
ObjectColon(m, j) ==
  IF m.x # -5 THEN ReturnError(m, m.p, m.x, j)
  ELSE CallAt(m, m.p, "value", m.p.iErr + 1)

\* after an element that ends before offset j: ',' continues the loop at
\* site next, cClose ends it, anything else is looked at by a call at the
\* site sep
AfterElement(m, j, cClose, next, sep) ==
  LET z == m.p.zJson
      js == IF jsonIsspace(zAt(z, j)) THEN SkipSpaces(z, j) ELSE j
  IN IF zAt(z, js) = CH_COMMA THEN CallAt(m, m.p, next, js + 1)
     ELSE IF zAt(z, js) = cClose THEN CloseContainer(m, m.p, js)
     ELSE CallAt(m, m.p, sep, js)

\* x returned to the site "value" (object) or "elem" (array)
ObjectValue(m, j) ==
  IF m.x <= 0 THEN ReturnError(m, m.p, m.x, j)
  ELSE AfterElement(m, m.x, CH_RBRACE, "label", "osep")

ArrayElem(m, j) ==
  IF m.x <= 0
    THEN IF m.x = -3 THEN CloseAfterComma(m, m.p)
         ELSE ReturnError(m, m.p, m.x, j)
    ELSE AfterElement(m, m.x, CH_RBRACKET, "elem", "asep")

\* x returned to the site "osep" or "asep": xClose is -2 or -3
Separator(m, j, xClose, next) ==
  IF m.x = -4 THEN CallAt(m, m.p, next, m.p.iErr + 1)
  ELSE IF m.x = xClose THEN CloseContainer(m, m.p, m.p.iErr)
  ELSE ReturnFrom(m, [m.p EXCEPT !.iErr = j], -1)

\* A call returns to the activation on top of the stack.
XlateResume(m) ==
  IF Top(m).k = "label" THEN ObjectLabel(m, Top(m).j)
  ELSE IF Top(m).k = "colon" THEN ObjectColon(m, Top(m).j)
  ELSE IF Top(m).k = "value" THEN ObjectValue(m, Top(m).j)
  ELSE IF Top(m).k = "osep" THEN Separator(m, Top(m).j, -2, "label")
  ELSE IF Top(m).k = "elem" THEN ArrayElem(m, Top(m).j)
  ELSE Separator(m, Top(m).j, -3, "elem")

\* a new activation, inside the loop of its container, makes its first call
PushFrame(m, pParse, k, i, iThis) ==
  [m EXCEPT !.p = pParse, !.pc = "call", !.i = i + 1,
            !.stk = Append(@, [k |-> k, iThis |-> iThis,
                               iStart |-> Len(pParse.aBlob), j |-> i + 1,
                               iBlob |-> Len(pParse.aBlob)])]

\* ++pParse->iDepth > JSON_MAX_DEPTH, q the parse with the header appended
OpenDepth(m, q, k, i, iThis) ==
  IF (q.iDepth + 1) % 65536 > JSON_MAX_DEPTH
    THEN [m EXCEPT !.p = [q EXCEPT !.iDepth = (@ + 1) % 65536, !.iErr = i],
                   !.pc = "ret", !.x = -1]
    ELSE PushFrame(m, [q EXCEPT !.iDepth = (@ + 1) % 65536], k, i, iThis)

\* case '{'
OpenObject(m) ==
  OpenDepth(m,
            jsonBlobAppendNode(m.p, JSONB_OBJECT, (m.p.nJson - m.i) * 2, <<>>,
                               FALSE),
            "label", m.i, Len(m.p.aBlob))

\* case '[': q is the parse with the header appended
OpenArrayChecked(m, q) ==
  IF q.oom THEN [m EXCEPT !.p = q, !.pc = "ret", !.x = -1]
  ELSE OpenDepth(m, q, "elem", m.i, Len(m.p.aBlob))

OpenArray(m) ==
  OpenArrayChecked(m, jsonBlobAppendNode(m.p, JSONB_ARRAY, m.p.nJson - m.i,
                                         <<>>, FALSE))

IsOpen(c) == c = CH_LBRACE \/ c = CH_LBRACKET

\* the cases of the switch that end in  goto json_parse_restart
IsRestart(c) ==
  \/ jsonIsspace(c)
  \/ c = 11 \/ c = 12 \/ c = CH_SLASH
  \/ c = 194 \/ c = 225 \/ c = 226 \/ c = 227 \/ c = 239

\* white space at offset i: the offset the switch is entered again at
XlateRestart(m) ==
  IF jsonIsspace(zAt(m.p.zJson, m.i))
    THEN [m EXCEPT !.i = SkipSpaces(m.p.zJson, m.i)]
  ELSE IF json5Whitespace(m.p.zJson, m.i) > 0
    THEN [m EXCEPT !.i = @ + json5Whitespace(m.p.zJson, m.i),
                   !.p.hasNonstd = TRUE]
  ELSE [m EXCEPT !.p.iErr = m.i, !.pc = "ret", !.x = -1]

\* the cases that return without a call of jsonXlateTextToBlob
XlateLeaf(m, r) == [m EXCEPT !.p = r.p, !.pc = "ret", !.x = r.x]

\* jsonConvertTextToBlob after jsonXlateTextToBlob(pParse, 0) returned x:
\* the text that follows the element, the result and the error message.
\* On failure the parse is reset (jsonParseReset).
ConvertFail(m, msg) ==
  [m EXCEPT !.pc = "done", !.rc = 1, !.msg = msg,
            !.p.aBlob = <<>>, !.p.nBlobAlloc = 0]

ConvertTail(m, i, i5) ==
  IF zAt(m.p.zJson, i) = CH_NUL THEN [m EXCEPT !.pc = "done", !.rc = 0]
  ELSE IF zAt(m.p.zJson, i5) # CH_NUL THEN ConvertFail(m, "")
  ELSE [m EXCEPT !.pc = "done", !.rc = 0, !.p.hasNonstd = TRUE]

ConvertEnd(m, hasCtx, i) ==
  IF m.p.oom \/ m.x <= 0
    THEN ConvertFail(m, IF ~hasCtx THEN ""
                        ELSE IF m.p.oom THEN "out of memory"
                        ELSE "malformed JSON")
    ELSE ConvertTail(m, i, i + json5Whitespace(m.p.zJson, i))

jsonConvertTextToBlob(m, hasCtx) ==
  ConvertEnd(m, hasCtx,
             IF jsonIsspace(zAt(m.p.zJson, m.x))
               THEN SkipSpaces(m.p.zJson, m.x) ELSE m.x)

(***************************************************************************)
(* The recursion of jsonXlateBlobToText, one activation per step           *)
(*   A machine r holds the blob, the text out produced so far, the stack   *)
(*   stk of the activations that are inside the loop of case JSONB_ARRAY   *)
(*   or JSONB_OBJECT, and the offset j of the call being entered           *)
(*   (pc = "call") or returned (pc = "ret").                               *)
(***************************************************************************)
RenderMachine(pParse) ==
  [p |-> pParse, out |-> <<>>, eErr |-> FALSE, stk |-> <<>>, pc |-> "call",
   j |-> 0]

\* case JSONB_ARRAY / JSONB_OBJECT: the bracket is appended and the loop
\* entered; sz is the payload size at offset j, n the header size
RenderOpen(r, n, sz) ==
  [r EXCEPT !.out = Append(@, IF Rd(r.p.aBlob, r.j) % 16 = JSONB_OBJECT
                                THEN CH_LBRACE ELSE CH_LBRACKET),
            !.stk = Append(@, [isObj |-> Rd(r.p.aBlob, r.j) % 16 = JSONB_OBJECT,
                               iEnd |-> r.j + n + sz, sz |-> sz, x |-> 0,
                               j |-> r.j + n]),
            !.pc = "loop"]

\* an element that is no container, rendered by e = jsonXlateBlobToText
RenderLeaf(r, e) ==
  [r EXCEPT !.out = @ \o e.out, !.eErr = @ \/ e.eErr, !.j = e.next,
            !.pc = "ret"]

\* j = jsonXlateBlobToText(pParse, j, pOut); jsonAppendChar(pOut, sep);
RenderReturned(r) ==
  [r EXCEPT !.out = Append(@, IF Top(r).isObj /\ Top(r).x % 2 = 0
                                THEN CH_COLON ELSE CH_COMMA),
            !.stk[Len(r.stk)] = [@ EXCEPT !.x = @ + 1, !.j = r.j],
            !.pc = "loop"]

\* while( j<iEnd ): the next call, or the end of the container
RenderLoop(r) ==
  IF Top(r).j < Top(r).iEnd THEN [r EXCEPT !.pc = "call", !.j = Top(r).j]
  ELSE [r EXCEPT !.out = (IF Top(r).sz > 0 THEN SubSeq(@, 1, Len(@) - 1) ELSE @)
                          \o << IF Top(r).isObj THEN CH_RBRACE
                                ELSE CH_RBRACKET >>,
                 !.eErr = @ \/ (Top(r).isObj /\ Top(r).x % 2 = 1),
                 !.j = Top(r).iEnd,
                 !.stk = Pop(@),
                 !.pc = "ret"]

IsContainer(a, j) == Rd(a, j) % 16 = JSONB_ARRAY \/ Rd(a, j) % 16 = JSONB_OBJECT

(***************************************************************************)
(* Bounds and inputs                                                       *)
(***************************************************************************)
\* largest document (bytes) the host stores back
MaxBlob == 14
\* number of edit calls in a behaviour
MaxCalls == 2
\* allocation requests of one call that fault injection can make fail
MaxFailAt == 4

\* decimal text of an array index
RECURSIVE DecimalText(_)
DecimalText(u) ==
  IF u < 10 THEN << CH_0 + u >>
  ELSE DecimalText(u \div 10) \o << CH_0 + (u % 10) >>

\* A path step: .name, ."name", [n], [#] (n = 0) or [#-n]
Key(zKey) == [k |-> "key", zKey |-> zKey, n |-> 0]
QKey(zKey) == [k |-> "qkey", zKey |-> zKey, n |-> 0]
Idx(n) == [k |-> "idx", zKey |-> <<>>, n |-> n]
Hash(n) == [k |-> "hash", zKey |-> <<>>, n |-> n]

StepText(s) ==
  IF s.k = "key" THEN << CH_DOT >> \o s.zKey
  ELSE IF s.k = "qkey"
    THEN << CH_DOT, CH_DQUOTE >> \o s.zKey \o << CH_DQUOTE >>
  ELSE IF s.k = "idx"
    THEN << CH_LBRACKET >> \o DecimalText(s.n) \o << CH_RBRACKET >>
  ELSE IF s.n = 0 THEN << CH_LBRACKET, CH_HASH, CH_RBRACKET >>
  ELSE << CH_LBRACKET, CH_HASH, CH_MINUS >> \o DecimalText(s.n)
       \o << CH_RBRACKET >>

RECURSIVE StepsText(_)
StepsText(steps) ==
  IF steps = <<>> THEN <<>>
  ELSE StepText(Head(steps)) \o StepsText(Tail(steps))

\* A path argument: the SQL text handed to the function, with the steps it
\* was written from (wf = FALSE: the text is not a well-formed path)
Path(steps) ==
  [wf |-> TRUE, steps |-> steps, arg |-> SqlText(<< CH_DOLLAR >> \o StepsText(steps))]
BadPath(z) == [wf |-> FALSE, steps |-> <<>>, arg |-> SqlText(z)]

La == << 97 >>
Lb == << 98 >>

Paths ==
  { Path(<<>>), Path(<< Key(La) >>), Path(<< Key(Lb) >>),
    Path(<< QKey(La) >>), Path(<< Idx(0) >>), Path(<< Idx(1) >>),
    Path(<< Hash(0) >>), Path(<< Hash(1) >>), Path(<< Hash(2) >>),
    Path(<< Key(La), Key(Lb) >>), Path(<< Key(La), Idx(0) >>),
    Path(<< Key(La), Idx(1) >>), Path(<< Key(Lb), Hash(0) >>),
    Path(<< Idx(0), Key(La) >>), Path(<< Idx(0), Idx(0) >>),
    Path(<< Idx(1), Hash(1) >>) }

\* "a" (no leading $), "$." (empty label), "$[a]" (bad index), "$a",
\* "$.a[x]" (bad index after a label), "$[0]x" (text after a step)
BadPaths ==
  { BadPath(<< 97 >>), BadPath(<< CH_DOLLAR, CH_DOT >>),
    BadPath(<< CH_DOLLAR, CH_LBRACKET, 97, CH_RBRACKET >>),
    BadPath(<< CH_DOLLAR, 97 >>),
    BadPath(<< CH_DOLLAR, CH_DOT, 97, CH_LBRACKET, 120, CH_RBRACKET >>),
    BadPath(<< CH_DOLLAR, CH_LBRACKET, CH_0, CH_RBRACKET, 120 >>) }

X10 == << 120, 120, 120, 120, 120, 120, 120, 120, 120, 120 >>
X96 == X10 \o X10 \o X10 \o X10 \o X10 \o X10 \o X10 \o X10 \o X10
       \o << 120, 120, 120, 120, 120, 120 >>

\* SQL values supplied as content: NULL, 7, a 10-character text, and the
\* JSONB blobs of [] and {"a":null}
Values ==
  { SqlNull, SqlInt(<< 55 >>), SqlText(X10),
    SqlBlob(<< 11 >>), SqlBlob(<< 60, 23, 97, 0 >>) }

\* a 98-byte JSONB text element, supplied when allocation faults are enabled
HugeValue == SqlBlob(<< 202, 96 >> \o X96)

\* Well-formed documents the host starts from:
\*   {}   []   7   {"a":7}   [7,null]   {"a":[7]}   {"a":null} with a
\*   two-byte header   ["xxxxxxxxxx"]   {"a":{"b":null},"b":"x"}
InitDocs ==
  { << 12 >>, << 11 >>, << 19, 55 >>,
    << 76, 23, 97, 19, 55 >>,
    << 59, 19, 55, 0 >>,
    << 92, 23, 97, 43, 19, 55 >>,
    << 204, 3, 23, 97, 0 >>,
    << 187, 167 >> \o X10,
    << 172, 23, 97, 60, 23, 98, 0, 23, 98, 26, 120 >> }

\* Documents that pass the top-level check of jsonParseFuncArg but are
\* inconsistent inside:
\*   object whose label position holds an INT;  object whose label runs to
\*   the end of the body;  array whose second element has a truncated
\*   header;  array whose only element declares more payload than the body
\*   holds;  object whose value has an unknown kind
MalformedDocs ==
  { << 60, 19, 55, 0 >>,
    << 44, 23, 97 >>,
    << 43, 0, 204 >>,
    << 43, 75, 0 >>,
    << 60, 23, 97, 13 >> }

\* Merge patches: {}  {"a":null}  {"a":7}  {"b":{"a":7}}  {"a":{"b":null}}
\*   [7]   null   {} with a two-byte header   {"a":7} with a TEXTRAW label
Patches ==
  { << 12 >>, << 60, 23, 97, 0 >>, << 76, 23, 97, 19, 55 >>,
    << 124, 23, 98, 76, 23, 97, 19, 55 >>,
    << 108, 23, 97, 60, 23, 98, 0 >>,
    << 43, 19, 55 >>, << 0 >>, << 204, 0 >>,
    << 76, 26, 97, 19, 55 >> }

\* argument lists of the two-pair calls
PairPaths ==
  { << Path(<< Key(Lb) >>), Path(<< Key(Lb), Key(La) >>) >>,
    << Path(<< Key(La) >>), Path(<< Key(La) >>) >>,
    << Path(<< Hash(0) >>), Path(<< Hash(1) >>) >>,
    << Path(<< Idx(0) >>), Path(<< Idx(1) >>) >>,
    << Path(<< Key(La) >>), BadPath(<< CH_DOLLAR, CH_DOT >>) >>,
    << Path(<< Idx(2) >>), Path(<< Key(La) >>) >> }

\* hc when no header is being written or read
NoCodec ==
  [op |-> "none", phase |-> "idle", eType |-> 0, sz |-> 0, a |-> <<>>,
   nBlob |-> 0, i |-> 0, n |-> 0, osz |-> 0]

(***************************************************************************)
(* The parse cache: struct JsonCache, jsonCacheInsert, jsonCacheSearch     *)
(*   A JsonParse of the cache is a record: zJson is its text, zId the      *)
(*   RCStr that holds the text (its memory identity), aBlob the bytes of    *)
(*   its JSONB and pBlob the address of the buffer that holds them.  val   *)
(*   is the RCStr text value the statement holds from an earlier call      *)
(*   (id = 0: none).                                                       *)
(***************************************************************************)
JSON_CACHE_SIZE == 4

Slots == 0..(JSON_CACHE_SIZE - 1)

\* RCStr objects and buffer addresses that can be live at one time
NRCStr == 12
NAddr == 12

\* a slot of a[] that holds no JsonParse
NoParse ==
  [zJson |-> <<>>, zId |-> 0, aBlob |-> <<>>, pBlob |-> 0, nJPRef |-> 0,
   bReadOnly |-> FALSE, hasNonstd |-> FALSE]

\* a JsonParse its creator holds one reference to
TextJsonParse(zJson, zId, aBlob, pBlob, hasNonstd) ==
  [zJson |-> zJson, zId |-> zId, aBlob |-> aBlob, pBlob |-> pBlob,
   nJPRef |-> 1, bReadOnly |-> FALSE, hasNonstd |-> hasNonstd]

NoValue == [z |-> <<>>, id |-> 0]

\* the cache of a statement that has not inserted anything
NoCache == [nUsed |-> 0, a |-> [k \in Slots |-> NoParse], val |-> NoValue]

\* the least element of S, d when S is empty
MinOf(S, d) == IF S = {} THEN d ELSE CHOOSE k \in S : \A j \in S : k <= j

\* jsonParseFree of the JsonParse in slot k, which is referenced elsewhere
ParseFree(c, k) == [c EXCEPT !.a[k].nJPRef = @ - 1]

\* a full cache keeps its entries and counts one more
jsonCacheInsertNoEvict(c, pParse) ==
  [c EXCEPT !.nUsed = @ + 1,
            !.a[MinOf({c.nUsed, JSON_CACHE_SIZE - 1}, 0)] =
               [pParse EXCEPT !.nJPRef = @ + 1, !.bReadOnly = TRUE]]

jsonCacheInsert(c, pParse) ==
  LET n == IF c.nUsed >= JSON_CACHE_SIZE THEN JSON_CACHE_SIZE - 1
           ELSE c.nUsed
      a == IF c.nUsed >= JSON_CACHE_SIZE
             THEN [k \in Slots |-> IF k < JSON_CACHE_SIZE - 1 THEN c.a[k + 1]
                                   ELSE c.a[k]]
             ELSE c.a
  IN [c EXCEPT !.nUsed = n + 1,
               !.a = [a EXCEPT ![n] = [pParse EXCEPT !.nJPRef = @ + 1,
                                                     !.bReadOnly = TRUE]]]

\* the first slot in use whose text has the bytes of z, nUsed if none
ContentSlot(c, z) ==
  MinOf({k \in Slots : k < c.nUsed /\ Len(c.a[k].zJson) = Len(z)
                       /\ c.a[k].zJson = z}, c.nUsed)

\* the content of the text compared first, its identity never
SearchSlotContentFirst(c, z, id) == ContentSlot(c, z)

\* the two loops of jsonCacheSearch: the slot that matches the text z held
\* in memory at id, nUsed if none
SearchSlot(c, z, id) ==
  LET i == MinOf({k \in Slots : k < c.nUsed /\ c.a[k].zId = id}, c.nUsed)
  IN IF i >= c.nUsed THEN ContentSlot(c, z) ELSE i

\* the matching entry exchanged with the last one
MakeLastSwap(c, i) ==
  [c EXCEPT !.a = [k \in Slots |-> IF k = i THEN c.a[c.nUsed - 1]
                                   ELSE IF k = c.nUsed - 1 THEN c.a[i]
                                   ELSE c.a[k]]]

\* the matching entry becomes the most recently used one
MakeLast(c, i) ==
  [c EXCEPT !.a = [k \in Slots |-> IF k < i \/ k >= c.nUsed THEN c.a[k]
                                   ELSE IF k = c.nUsed - 1 THEN c.a[i]
                                   ELSE c.a[k + 1]]]

\* jsonCacheSearch: i is the slot that matched (-1: none) and c the cache
\* at return, where the entry found is in slot nUsed - 1.  id = 0 says that
\* the text of pArg is not in an RCStr
jsonCacheSearch(c, pArg, id) ==
  IF pArg.type # "text" \/ SearchSlot(c, pArg.z, id) >= c.nUsed
    THEN [i |-> -1, c |-> c]
    ELSE [i |-> SearchSlot(c, pArg.z, id),
          c |-> MakeLast(c, SearchSlot(c, pArg.z, id))]

\* a write of the bytes b through a pointer to the buffer at address addr:
\* every JsonParse whose aBlob is that buffer has them
WriteBlob(c, addr, b) ==
  [c EXCEPT !.a = [k \in Slots |-> IF c.a[k].pBlob = addr /\ k < c.nUsed
                                     THEN [c.a[k] EXCEPT !.aBlob = b]
                                     ELSE c.a[k]]]

(***************************************************************************)
(* JsonParse objects, their reference counts and their buffers             *)
(*   An object is unused, live or freed.  aBlob says what the pointer of   *)
(*   a live object refers to: "null", "heap" (memory the object            *)
(*   allocated), "arg" (the memory of the argument of the call in          *)
(*   progress), "host" (memory the host was given with a result) or        *)
(*   "dead" (memory that was released).  val is the text the blob is the   *)
(*   JSONB of.  Texts are told apart by what matters for the cache:        *)
(*   "long" renders to itself and does not fit in zSpace, "long5" is the   *)
(*   same value in JSON5 syntax, "short" renders to itself inside zSpace,  *)
(*   "bad" is no JSON.                                                      *)
(***************************************************************************)
\* JsonParse objects one statement can allocate
NParse == 9

\* calls one statement makes
MaxRefCalls == 3

NoObj ==
  [st |-> "unused", nJPRef |-> 0, zJson |-> "", bJsonIsRCStr |-> FALSE,
   nBlobAlloc |-> 0, aBlob |-> "null", val |-> "", nErr |-> 0]

\* memset(p, 0, sizeof(*p)); p->nJPRef = 1;
LiveObj == [NoObj EXCEPT !.st = "live", !.nJPRef = 1]

NoHeap ==
  [obj |-> [q \in 1..NParse |-> NoObj], a |-> <<>>, fn |-> "none",
   blobOut |-> FALSE, args |-> <<>>, pc |-> "idle", p |-> 0, pPatch |-> 0,
   n |-> 0, dbl |-> FALSE, uaf |-> FALSE]

\* sqlite3_malloc64( sizeof(*p) )
NewObj(h) == MinOf({ q \in 1..NParse : h.obj[q].st = "unused" }, 0)

\* the text jsonXlateBlobToText makes of the value of text t
Rendered(t) == IF t = "long5" THEN "long" ELSE t

\* a read of the bytes at aBlob of object q
ReadBlob(h, q) ==
  IF h.obj[q].aBlob = "dead" THEN [h EXCEPT !.uaf = TRUE] ELSE h

\* the last reference released although others are counted
ObjFreeAlways(h, q) ==
  IF q = 0 THEN h
  ELSE IF h.obj[q].st # "live" THEN [h EXCEPT !.dbl = TRUE]
  ELSE [h EXCEPT !.obj[q] = [NoObj EXCEPT !.st = "freed"]]

\* jsonParseFree(q): one reference less, and with the last one
\* jsonParseReset and sqlite3_free
ObjFree(h, q) ==
  IF q = 0 THEN h
  ELSE IF h.obj[q].st # "live" THEN [h EXCEPT !.dbl = TRUE]
  ELSE IF h.obj[q].nJPRef > 1 THEN [h EXCEPT !.obj[q].nJPRef = @ - 1]
  ELSE [h EXCEPT !.obj[q] = [NoObj EXCEPT !.st = "freed"]]

\* the entry is stored and not counted
ObjCacheInsertUncounted(h, q) ==
  LET h1 == IF Len(h.a) >= JSON_CACHE_SIZE
              THEN [ObjFree(h, h.a[1]) EXCEPT !.a = Tail(h.a)]
              ELSE h
  IN [h1 EXCEPT !.a = Append(h1.a, q)]

\* jsonCacheInsert(ctx, q)
ObjCacheInsert(h, q) ==
  LET h1 == IF Len(h.a) >= JSON_CACHE_SIZE
              THEN [ObjFree(h, h.a[1]) EXCEPT !.a = Tail(h.a)]
              ELSE h
  IN [h1 EXCEPT !.obj[q].nJPRef = @ + 1, !.a = Append(h1.a, q)]

\* jsonCacheSearch: the first slot whose text is t, 0 if none (texts with
\* the same bytes are one text here)
ObjSlot(h, t) ==
  MinOf({ k \in 1..Len(h.a) : h.obj[h.a[k]].zJson = t }, 0)

\* and the entry found moved to the end
ObjMakeLast(h, k) ==
  [h EXCEPT !.a = SubSeq(h.a, 1, k - 1) \o SubSeq(h.a, k + 1, Len(h.a))
                  \o << h.a[k] >>]

\* jsonParseFuncArg at rebuild_from_cache: a new object with a copy of the
\* blob of pFromCache, which is released
ObjCopy(h, pFromCache) ==
  [h |-> ObjFree([ReadBlob(h, pFromCache)
                    EXCEPT !.obj[NewObj(h)] =
                      [LiveObj EXCEPT !.aBlob = "heap", !.nBlobAlloc = 1,
                                      !.val = h.obj[pFromCache].val]],
                 pFromCache),
   p |-> NewObj(h)]

\* jsonParseFuncArg for a BLOB: the object refers to the memory of the
\* argument unless it has to be editable
ObjParseBlob(h, pArg, editable) ==
  [h |-> [h EXCEPT !.obj[NewObj(h)] =
            [LiveObj EXCEPT !.aBlob = IF editable THEN "heap" ELSE "arg",
                            !.nBlobAlloc = IF editable THEN 1 ELSE 0,
                            !.val = pArg.z]],
   p |-> NewObj(h)]

\* the object of a text that was parsed, in the cache
ObjTextInserted(h, pArg) ==
  ObjCacheInsert([h EXCEPT !.obj[NewObj(h)] =
                    [LiveObj EXCEPT !.zJson = pArg.z, !.bJsonIsRCStr = TRUE,
                                    !.aBlob = "heap", !.nBlobAlloc = 1,
                                    !.val = pArg.z]],
                 NewObj(h))

\* jsonParseFuncArg for a text that is not in the cache
ObjParseText(h, pArg, editable, keepError) ==
  IF pArg.z = "bad"
    THEN IF keepError
           THEN [h |-> [h EXCEPT !.obj[NewObj(h)] = [LiveObj EXCEPT !.nErr = 1]],
                 p |-> NewObj(h)]
           ELSE [h |-> h, p |-> 0]
  ELSE IF editable THEN ObjCopy(ObjTextInserted(h, pArg), NewObj(h))
  ELSE [h |-> ObjTextInserted(h, pArg), p |-> NewObj(h)]

\* jsonParseFuncArg(ctx, pArg, flgs): the heap at return and the object
\* returned (0: none)
ObjParseFuncArg(h, pArg, editable, keepError) ==
  IF pArg.type = "text" /\ ObjSlot(h, pArg.z) # 0
    THEN IF editable
           THEN ObjCopy([ObjMakeLast(h, ObjSlot(h, pArg.z))
                           EXCEPT !.obj[h.a[ObjSlot(h, pArg.z)]].nJPRef = @ + 1],
                        h.a[ObjSlot(h, pArg.z)])
           ELSE [h |-> [ObjMakeLast(h, ObjSlot(h, pArg.z))
                          EXCEPT !.obj[h.a[ObjSlot(h, pArg.z)]].nJPRef = @ + 1],
                 p |-> h.a[ObjSlot(h, pArg.z)]]
  ELSE IF pArg.type = "blob" THEN ObjParseBlob(h, pArg, editable)
  ELSE ObjParseText(h, pArg, editable, keepError)

\* jsonReturnString(&s, q, ctx) of jsonReturnParse: a text that left
\* zSpace becomes the text of q, and q goes to the cache
ObjReturnString(h, q) ==
  IF Rendered(h.obj[q].val) = "short" \/ h.obj[q].bJsonIsRCStr THEN h
  ELSE ObjCacheInsert([h EXCEPT !.obj[q].zJson = Rendered(h.obj[q].val),
                                !.obj[q].bJsonIsRCStr = TRUE], q)

\* jsonReturnParse(ctx, q): a function with JSON_BLOB gives an allocated
\* buffer to the host (SQLITE_DYNAMIC) and lets the host copy any other
\* (SQLITE_TRANSIENT); the others render the blob
ObjReturnParse(h, q) ==
  IF h.blobOut
    THEN IF h.obj[q].nBlobAlloc > 0
           THEN [h EXCEPT !.obj[q].aBlob = "host", !.obj[q].nBlobAlloc = 0]
           ELSE ReadBlob(h, q)
    ELSE ObjReturnString(ReadBlob(h, q), q)

\* the call returns: the memory of its arguments is the host's again
ArgsReleased(h) ==
  [h EXCEPT !.obj = [q \in 1..NParse |->
                       IF h.obj[q].aBlob = "arg"
                         THEN [h.obj[q] EXCEPT !.aBlob = "dead"]
                         ELSE h.obj[q]],
            !.fn = "none", !.blobOut = FALSE, !.args = <<>>, !.pc = "idle",
            !.p = 0, !.pPatch = 0]

RECURSIVE ObjFreeAll(_,_)
\* jsonCacheDelete: the loop over a[0..nUsed-1]
ObjFreeAll(h, k) ==
  IF k > Len(h.a) THEN [h EXCEPT !.a = <<>>]
  ELSE ObjFreeAll(ObjFree(h, h.a[k]), k + 1)

(***************************************************************************)
(* The host: a stored JSONB document edited by SQL function calls          *)
(*   doc     the JSONB value the host holds and passes as argv[0]          *)
(*   last    what the most recent call was given and what it produced      *)
(*   nCalls  number of calls made                                          *)
(*   faults  TRUE when the host runs the calls under allocator fault       *)
(*           injection; the results of such calls are inspected, not       *)
(*           stored                                                        *)
(*   px      a call of json(), jsonb(), json_valid() or jsonb_remove() in  *)
(*           progress                                                      *)
(*   jc      the parse cache of the statement                              *)
(*   hc      an element header being written or read                       *)
(*   hp      the JsonParse objects of a statement and who refers to them   *)
(***************************************************************************)
VARIABLES doc, last, nCalls, faults, px, jc, hc, hp

vars == << doc, last, nCalls, faults, px, jc, hc, hp >>

ResultText(z) == [type |-> "text", blob |-> z, msg |-> ""]

ResultInt(n) == [type |-> "integer", blob |-> << n >>, msg |-> ""]

\* px when no call of json(), jsonb(), json_valid() or jsonb_remove() is in
\* progress
NoXlate ==
  [fn |-> "none", arg |-> SqlNull, flags |-> 0, depth |-> 0, phase |-> "idle",
   m |-> XlateMachine(TextParse(<<>>, 0, 0)),
   r |-> RenderMachine(NewParse(<<>>, 0, 0)), res |-> ResultNull,
   argId |-> 0, paths |-> <<>>, resId |-> 0, pAddr |-> 0, pNonstd |-> FALSE,
   jc0 |-> NoCache, jc1 |-> NoCache, hit |-> -1, ins |-> <<>>]

XlateCallOf(fn, arg, flags, depth) ==
  [NoXlate EXCEPT !.fn = fn, !.arg = arg, !.flags = flags, !.depth = depth,
                  !.phase = "start"]

NoCall ==
  [fn |-> "none", paths |-> <<>>, vals |-> <<>>, patch |-> <<>>,
   failAt |-> 0, before |-> <<>>, res |-> ResultNull, rcs |-> <<>>,
   heapOvf |-> FALSE, extWrite |-> FALSE]

FailAts == IF faults THEN 0..MaxFailAt ELSE {0}

ContentValues == IF faults THEN Values \cup {HugeValue} ELSE Values

\* The host's document after a call that stored past the end of its heap
\* block: untouched, or (the document lying right behind the block) with
\* its first byte overwritten by the last byte stored.
Clobber(a, p) ==
  {a} \cup { [a EXCEPT ![1] = p.aIns[Len(p.aIns)]] }

\* One SQL function call on the stored document; out is what the function
\* produced.  The function works on its own copy of the argument, so the
\* host's document changes only if the call stored outside its buffers.
Call(fn, paths, vals, patch, failAt, out) ==
  /\ last.fn = "none"
  /\ nCalls < MaxCalls
  /\ last' = [fn |-> fn, paths |-> paths, vals |-> vals, patch |-> patch,
              failAt |-> failAt, before |-> doc, res |-> out.res,
              rcs |-> out.rcs, heapOvf |-> out.p.heapOvf,
              extWrite |-> out.p.extWrite]
  /\ doc' \in IF out.p.heapOvf THEN Clobber(doc, out.p) ELSE {doc}
  /\ nCalls' = nCalls + 1
  /\ UNCHANGED << faults, px, jc, hc, hp >>

PathArgs(paths) == [i \in 1..Len(paths) |-> paths[i].arg]

Pairs(paths, vals) == [i \in 1..Len(paths) |-> << paths[i].arg, vals[i] >>]

\* argument lists: one path, or one of the two-path lists
PathLists == { << p >> : p \in Paths \cup BadPaths } \cup PairPaths

\* content of the two-pair calls
PairValues == { SqlNull, SqlInt(<< 55 >>), SqlBlob(<< 12 >>) }

ValueLists(n) == IF n = 1 THEN [1..1 -> ContentValues] ELSE [1..n -> PairValues]

\* jsonb_remove(doc, path, ...)
Remove ==
  \E paths \in PathLists, failAt \in FailAts :
    Call("remove", paths, <<>>, <<>>, failAt,
         jsonRemoveFunc(SqlBlob(doc), PathArgs(paths), failAt))

\* jsonb_replace(doc, path, value, ...)
Replace ==
  \E paths \in PathLists, failAt \in FailAts :
    \E vals \in ValueLists(Len(paths)) :
      Call("replace", paths, vals, <<>>, failAt,
           jsonReplaceFunc(SqlBlob(doc), Pairs(paths, vals), failAt))

\* jsonb_insert(doc, path, value, ...)
Insert ==
  \E paths \in PathLists, failAt \in FailAts :
    \E vals \in ValueLists(Len(paths)) :
      Call("insert", paths, vals, <<>>, failAt,
           jsonSetFunc(SqlBlob(doc), Pairs(paths, vals), FALSE, failAt))

\* jsonb_set(doc, path, value, ...)
Set ==
  \E paths \in PathLists, failAt \in FailAts :
    \E vals \in ValueLists(Len(paths)) :
      Call("set", paths, vals, <<>>, failAt,
           jsonSetFunc(SqlBlob(doc), Pairs(paths, vals), TRUE, failAt))

\* jsonb_patch(doc, patch)
Patch ==
  \E patch \in Patches, failAt \in FailAts :
    Call("patch", <<>>, <<>>, patch, failAt,
         jsonPatchFunc(SqlBlob(doc), SqlBlob(patch), failAt))

\* The host takes the result: a JSONB result of at most MaxBlob bytes
\* becomes the stored document (UPDATE ... SET doc = jsonb_xxx(doc, ...)),
\* anything else leaves the stored document as it is.
Return ==
  /\ last.fn # "none"
  /\ doc' = IF ~faults /\ last.res.type = "blob"
                /\ Len(last.res.blob) <= MaxBlob
              THEN last.res.blob ELSE doc
  /\ last' = NoCall
  /\ UNCHANGED << nCalls, faults, px, jc, hc, hp >>

Next == Remove \/ Replace \/ Insert \/ Set \/ Patch \/ Return

\* well-formed documents, allocator never fails
Init ==
  /\ doc \in InitDocs
  /\ last = NoCall
  /\ nCalls = 0
  /\ faults = FALSE
  /\ px = NoXlate
  /\ jc = NoCache
  /\ hc = NoCodec
  /\ hp = NoHeap

Spec == Init /\ [][Next]_vars

\* any document that passes the argument check, allocator may fail
InitFault ==
  /\ doc \in InitDocs \cup MalformedDocs
  /\ last = NoCall
  /\ nCalls = 0
  /\ faults = TRUE
  /\ px = NoXlate
  /\ jc = NoCache
  /\ hc = NoCodec
  /\ hp = NoHeap

SpecFault == InitFault /\ [][Next]_vars

\* Documents with a repeated label, as jsonb() produces them from a text
\* that repeats a label:  {"a":7,"a":8}   {"b":8,"a":7,"a":null}
DupDocs ==
  { << 140, 23, 97, 19, 55, 23, 97, 19, 56 >>,
    << 188, 23, 98, 19, 56, 23, 97, 19, 55, 23, 97, 0 >> }

\* well-formed documents, repeated labels included, allocator never fails
InitDup ==
  /\ doc \in InitDocs \cup DupDocs
  /\ last = NoCall
  /\ nCalls = 0
  /\ faults = FALSE
  /\ px = NoXlate
  /\ jc = NoCache
  /\ hc = NoCodec
  /\ hp = NoHeap

SpecDup == InitDup /\ [][Next]_vars

(***************************************************************************)
(* The JSONB format as a tree of elements                                  *)
(*   An element is a tag byte (kind in the low nibble, size class in the   *)
(*   high nibble), 0, 1, 2 or 4 size bytes, and the payload.               *)
(***************************************************************************)
Kind(a, i) == Rd(a, i) % 16

HdrLen(a, i) ==
  LET x == Rd(a, i) \div 16
  IN IF x <= 11 THEN 1 ELSE IF x = 12 THEN 2 ELSE IF x = 13 THEN 3 ELSE 5

\* declared payload size, -1 when it is 2^31 or more
DeclSize(a, i) ==
  LET x == Rd(a, i) \div 16
  IN IF x <= 11 THEN x
     ELSE IF x = 12 THEN Rd(a, i+1)
     ELSE IF x = 13 THEN Rd(a, i+1) * 256 + Rd(a, i+2)
     ELSE IF Rd(a, i+1) >= 128 THEN -1
     ELSE Rd(a, i+1) * 16777216 + Rd(a, i+2) * 65536 + Rd(a, i+3) * 256
          + Rd(a, i+4)

ElemEnd(a, i) == i + HdrLen(a, i) + DeclSize(a, i)

\* The element at i is well formed and lies within a[i..iEnd-1]: its
\* header is complete, its kind is known, a null/true/false has no payload,
\* and the children of a container tile its payload exactly, an object
\* holding label/value pairs with text labels.
RECURSIVE WFElem(_,_,_)
RECURSIVE WFKids(_,_,_,_,_)
WFKids(a, j, iEnd, isObj, n) ==
  IF j >= iEnd THEN j = iEnd /\ (isObj => n % 2 = 0)
  ELSE /\ WFElem(a, j, iEnd)
       /\ (isObj /\ n % 2 = 0)
            => (Kind(a, j) >= JSONB_TEXT /\ Kind(a, j) <= JSONB_TEXTRAW)
       /\ WFKids(a, ElemEnd(a, j), iEnd, isObj, n + 1)

WFElem(a, i, iEnd) ==
  /\ i + HdrLen(a, i) <= iEnd
  /\ Kind(a, i) <= JSONB_OBJECT
  /\ DeclSize(a, i) >= 0
  /\ ElemEnd(a, i) <= iEnd
  /\ Kind(a, i) <= JSONB_FALSE => DeclSize(a, i) = 0
  /\ Kind(a, i) >= JSONB_ARRAY
       => WFKids(a, i + HdrLen(a, i), ElemEnd(a, i),
                 Kind(a, i) = JSONB_OBJECT, 0)

WellFormed(a) ==
  /\ Len(a) > 0
  /\ WFElem(a, 0, Len(a))
  /\ ElemEnd(a, 0) = Len(a)

\* The element at i of a well-formed blob as a tree: a primitive keeps its
\* header and payload bytes, a container the sequence of its children (for
\* an object: label, value, label, value, ...).
RECURSIVE Tree(_,_)
RECURSIVE Kids(_,_,_)
Kids(a, j, iEnd) ==
  IF j >= iEnd THEN <<>>
  ELSE << Tree(a, j) >> \o Kids(a, ElemEnd(a, j), iEnd)

Tree(a, i) ==
  IF Kind(a, i) >= JSONB_ARRAY
    THEN [kind |-> Kind(a, i), hdr |-> <<>>, text |-> <<>>,
          kids |-> Kids(a, i + HdrLen(a, i), ElemEnd(a, i))]
    ELSE [kind |-> Kind(a, i), hdr |-> Bytes(a, i, HdrLen(a, i)),
          text |-> Bytes(a, i + HdrLen(a, i), DeclSize(a, i)),
          kids |-> <<>>]

Container(kind, kids) ==
  [kind |-> kind, hdr |-> <<>>, text |-> <<>>, kids |-> kids]

\* a primitive with the smallest header that holds its payload
Prim(kind, text) ==
  [kind |-> kind,
   hdr |-> IF Len(text) <= 11 THEN << kind + 16 * Len(text) >>
           ELSE << kind + 192, Len(text) >>,
   text |-> text, kids |-> <<>>]

\* The element an SQL value is stored as: NULL is null, an integer is an
\* INT holding its decimal text, a text is a TEXTRAW holding its bytes, a
\* JSONB blob is itself.
ValueTree(v) ==
  IF v.type = "null" THEN Prim(JSONB_NULL, <<>>)
  ELSE IF v.type = "integer" THEN Prim(JSONB_INT, v.z)
  ELSE IF v.type = "text" THEN Prim(JSONB_TEXTRAW, v.z)
  ELSE Tree(v.z, 0)

(***************************************************************************)
(* Paths on trees                                                          *)
(*   [N] is the element with zero-based index N, [#-N] the element N       *)
(*   before the position that follows the last element, and [#] that       *)
(*   position itself.                                                      *)
(***************************************************************************)
IsKeyStep(s) == s.k = "key" \/ s.k = "qkey"

\* index an array step addresses in an array of cnt elements (-1: none)
StepIndex(s, cnt) ==
  IF s.k = "idx" THEN s.n
  ELSE IF s.n > cnt THEN -1 ELSE cnt - s.n

\* position in t.kids of the value of the first member labelled zKey, or 0
RECURSIVE MemberPos(_,_,_)
MemberPos(kids, zKey, i) ==
  IF i + 1 > Len(kids) THEN 0
  ELSE IF kids[i].text = zKey THEN i + 1
  ELSE MemberPos(kids, zKey, i + 2)

\* position in t.kids of the child that step s addresses, or 0
ChildPos(t, s) ==
  IF IsKeyStep(s)
    THEN IF t.kind = JSONB_OBJECT THEN MemberPos(t.kids, s.zKey, 1) ELSE 0
    ELSE IF t.kind = JSONB_ARRAY
              /\ StepIndex(s, Len(t.kids)) >= 0
              /\ StepIndex(s, Len(t.kids)) < Len(t.kids)
           THEN StepIndex(s, Len(t.kids)) + 1
           ELSE 0

RECURSIVE Resolves(_,_)
Resolves(t, steps) ==
  IF steps = <<>> THEN TRUE
  ELSE /\ ChildPos(t, Head(steps)) # 0
       /\ Resolves(t.kids[ChildPos(t, Head(steps))], Tail(steps))

RemoveAt(sq, i, n) == SubSeq(sq, 1, i - 1) \o SubSeq(sq, i + n, Len(sq))

\* t without the element steps resolves to (and without its label)
RECURSIVE TreeDelete(_,_)
TreeDelete(t, steps) ==
  LET c == ChildPos(t, Head(steps))
  IN IF Len(steps) = 1
       THEN IF t.kind = JSONB_OBJECT
              THEN [t EXCEPT !.kids = RemoveAt(@, c - 1, 2)]
              ELSE [t EXCEPT !.kids = RemoveAt(@, c, 1)]
       ELSE [t EXCEPT !.kids[c] = TreeDelete(@, Tail(steps))]

\* t with the element steps resolves to replaced by v
RECURSIVE TreeReplace(_,_,_)
TreeReplace(t, steps, v) ==
  IF steps = <<>> THEN v
  ELSE [t EXCEPT !.kids[ChildPos(t, Head(steps))] =
                    TreeReplace(@, Tail(steps), v)]

\* t with the missing remainder of steps materialized and ending in v.
\* A missing label is added to an object as a new last member; a missing
\* array element is added as a new last element: when atEnd, only if the
\* step addresses the position that follows the last element.
\* Returns [ok |-> the path could be materialized, t |-> the tree].
RECURSIVE TreeCreate(_,_,_,_)
TreeCreate(t, steps, v, atEnd) ==
  LET s == Head(steps)
      c == ChildPos(t, s)
      rest == Tail(steps)
      fresh == IF rest = <<>> THEN [ok |-> TRUE, t |-> v]
               ELSE TreeCreate(Container(IF IsKeyStep(Head(rest))
                                           THEN JSONB_OBJECT ELSE JSONB_ARRAY,
                                         <<>>),
                               rest, v, atEnd)
      sub == TreeCreate(t.kids[c], rest, v, atEnd)
      fits == IF IsKeyStep(s) THEN t.kind = JSONB_OBJECT
              ELSE /\ t.kind = JSONB_ARRAY
                   /\ atEnd => StepIndex(s, Len(t.kids)) = Len(t.kids)
  IN IF steps = <<>> THEN [ok |-> FALSE, t |-> t]
     ELSE IF c # 0
       THEN [ok |-> sub.ok, t |-> [t EXCEPT !.kids[c] = sub.t]]
     ELSE IF ~fits \/ ~fresh.ok THEN [ok |-> FALSE, t |-> t]
     ELSE IF IsKeyStep(s)
       THEN [ok |-> TRUE,
             t |-> [t EXCEPT !.kids = @ \o << Prim(JSONB_TEXTRAW, s.zKey),
                                              fresh.t >>]]
     ELSE [ok |-> TRUE, t |-> [t EXCEPT !.kids = Append(@, fresh.t)]]

(***************************************************************************)
(* json(X), jsonb(X), json_valid(X, FLAGS) and jsonb_remove(X, PATH), one  *)
(* activation per step                                                     *)
(*   px is one call in progress: the argument is checked and looked up in  *)
(*   the cache (phase "start"), a text argument is translated to JSONB by  *)
(*   the machine m (phase "parse"), json() renders its JSONB by the        *)
(*   machine r (phase "render"), and the result is set (phase "done").     *)
(*   depth records the container nesting of the argument.  jc0 is the      *)
(*   cache when the call began, jc1 the cache after jsonCacheSearch, hit   *)
(*   the slot of jc0 that matched and ins the RCStr of each JsonParse the  *)
(*   call inserted.                                                        *)
(***************************************************************************)
Done(res) == [px EXCEPT !.phase = "done", !.res = res]

With(x, c) == [x |-> x, c |-> c]

\* capacity of JsonString.zSpace
zSpaceSize == 100

\* the rendered text never left zSpace: appending N bytes to nUsed bytes
\* leaves it when N + nUsed >= nAlloc (no text rendered here has exactly
\* zSpaceSize bytes)
IsStatic(out) == Len(out) < zSpaceSize

IdsIn(c) == { c.a[k].zId : k \in Slots } \cup { c.val.id }

AddrsIn(c) == { c.a[k].pBlob : k \in Slots }

\* an RCStr that nothing refers to
FreshId(c) ==
  MinOf((1..NRCStr) \ (IdsIn(c) \cup IdsIn(px.jc0) \cup {px.argId}), 0)

\* the address of a buffer that nothing refers to
FreshAddr(c) ==
  MinOf((1..NAddr) \ (AddrsIn(c) \cup AddrsIn(px.jc0) \cup {px.pAddr}), 0)

LastSlot(c) == c.nUsed - 1

\* jsonParseFuncArg for a text argument that no entry of the cache matches,
\* up to the call of jsonConvertTextToBlob
ParseText(keepError) ==
  IF Len(px.arg.z) = 0
    THEN Done(IF keepError THEN ResultInt(0)
              ELSE ResultError("malformed JSON"))
    ELSE [px EXCEPT !.phase = "parse",
                    !.m = XlateMachine(TextParse(px.arg.z, 1, 0))]

\* jsonReturnParse of a function that returns text: the rendering starts
RenderParse(pParse) ==
  IF pParse.oom THEN Done(ResultError("out of memory"))
  ELSE [px EXCEPT !.phase = "render", !.r = RenderMachine(pParse)]

\* the caller is given the buffer of the cache entry itself
PrivateCopyShared(e, addr) ==
  [p |-> [NewParse(e.aBlob, 2, 0) EXCEPT !.nBlobAlloc = Len(e.aBlob)],
   addr |-> e.pBlob, hasNonstd |-> e.hasNonstd]

\* jsonParseFuncArg at rebuild_from_cache: the blob of pFromCache is copied
\* to a new buffer at addr, which the caller owns
PrivateCopy(e, addr) ==
  [p |-> [NewParse(e.aBlob, 2, 0) EXCEPT !.nBlobAlloc = Len(e.aBlob)],
   addr |-> addr, hasNonstd |-> e.hasNonstd]

\* jsonRemoveFunc after jsonParseFuncArg(ctx, argv[0], JSON_EDITABLE)
\* returned cp: json(X) has no path and renders the parse, jsonb_remove
\* edits the buffer of cp and returns it
JsonCopy(c, cp) ==
  IF px.fn = "json"
    THEN With([RenderParse(cp.p) EXCEPT !.pAddr = cp.addr,
                                        !.pNonstd = cp.hasNonstd], c)
    ELSE With([Done(RemoveLoop(cp.p, px.paths, 1, <<>>).res)
                 EXCEPT !.pAddr = cp.addr],
              WriteBlob(c, cp.addr, RemoveLoop(cp.p, px.paths, 1, <<>>).p.aBlob))

\* json(X) is jsonRemoveFunc with argc = 1: jsonParseFuncArg(ctx, argv[0],
\* JSON_EDITABLE) for a BLOB argument
JsonStartBlob(a) ==
  IF a.ok THEN JsonCopy(jc, [p |-> a.p, addr |-> FreshAddr(jc),
                             hasNonstd |-> FALSE])
  ELSE With(Done(IF a.msg = "" THEN ResultNull ELSE ResultError(a.msg)), jc)

\* jsonRemoveFunc up to the return of jsonParseFuncArg or the call of
\* jsonConvertTextToBlob; s is the outcome of jsonCacheSearch
JsonStart(s) ==
  IF s.i >= 0
    THEN JsonCopy(s.c, PrivateCopy(s.c.a[LastSlot(s.c)], FreshAddr(s.c)))
  ELSE IF px.arg.type = "text" THEN With(ParseText(FALSE), jc)
  ELSE JsonStartBlob(jsonParseFuncArg(px.arg, TRUE, 0))

\* jsonbFunc: JSONB is returned as it is, anything else is taken as text
\* and given to jsonConvertTextToBlob
JsonbStart ==
  IF px.arg.type = "null" THEN Done(ResultNull)
  ELSE IF jsonFuncArgMightBeBinary(px.arg) THEN Done(ResultBlob(px.arg.z))
  ELSE [px EXCEPT !.phase = "parse",
                  !.m = XlateMachine(TextParse(px.arg.z, 0, 0))]

\* jsonbFunc after jsonConvertTextToBlob returned c.rc
JsonbParsed(c) ==
  Done(IF c.rc # 0 THEN ResultError("malformed JSON")
       ELSE ResultBlob(c.p.aBlob))

\* every text that parses counted as valid, whatever FLAGS
ValidEndAnyDialect(c) ==
  Done(IF c.p.oom THEN ResultError("out of memory")
       ELSE IF c.rc # 0 THEN ResultInt(0)
       ELSE ResultInt(1))

\* jsonValidFunc after jsonParseFuncArg returned the parse c.p with
\* nErr = c.rc
ValidEnd(c) ==
  Done(IF c.p.oom THEN ResultError("out of memory")
       ELSE IF c.rc # 0 THEN ResultInt(0)
       ELSE IF (px.flags \div 2) % 2 = 1 \/ ~c.p.hasNonstd THEN ResultInt(1)
       ELSE ResultInt(0))

\* jsonValidFunc up to the return of jsonParseFuncArg(ctx, argv[0],
\* JSON_KEEPERROR) or the call of jsonConvertTextToBlob; s is the outcome
\* of jsonCacheSearch
ValidStart(s) ==
  IF px.flags < 1 \/ px.flags > 15
    THEN With(Done(ResultError("FLAGS parameter to json_valid() must be between 1 and 15")), jc)
  ELSE IF px.arg.type = "null" THEN With(Done(ResultNull), jc)
  ELSE IF px.arg.type = "blob"
    THEN With(Done(ResultInt(IF (px.flags \div 4) % 4 # 0
                                /\ jsonFuncArgMightBeBinary(px.arg)
                               THEN 1 ELSE 0)), jc)
  ELSE IF px.flags % 4 = 0 THEN With(Done(ResultInt(0)), jc)
  ELSE IF s.i >= 0
    THEN With(ValidEnd([p |-> [oom |-> FALSE,
                               hasNonstd |-> s.c.a[LastSlot(s.c)].hasNonstd],
                        rc |-> 0]), s.c)
  ELSE With(ParseText(TRUE), jc)

\* jsonCacheSearch is reached with a text
Searches ==
  /\ px.arg.type = "text"
  /\ \/ px.fn \in {"json", "jsonb_remove"}
     \/ px.fn = "json_valid" /\ px.flags >= 1 /\ px.flags <= 15
        /\ px.flags % 4 # 0

\* jsonParseFuncArg after jsonConvertTextToBlob returned 0: the text is
\* put in an RCStr, unless it is in one, and the parse goes to the cache
TextInserted(cv) ==
  jsonCacheInsert(jc,
    TextJsonParse(px.arg.z, IF px.argId # 0 THEN px.argId ELSE FreshId(jc),
                  cv.p.aBlob, FreshAddr(jc), cv.p.hasNonstd))

\* jsonParseFuncArg(JSON_EDITABLE) after jsonConvertTextToBlob returned
\* cv.rc: on success the parse goes to the cache and the caller gets a
\* copy of its blob
JsonParsed(cv, c) ==
  IF cv.rc # 0
    THEN With(Done(IF cv.msg = "" THEN ResultNull ELSE ResultError(cv.msg)),
              jc)
    ELSE JsonCopy(ParseFree(c, LastSlot(c)),
                  PrivateCopy(c.a[LastSlot(c)], FreshAddr(c)))

\* the function continues after jsonConvertTextToBlob returned cv
TextParsedBy(cv) ==
  IF px.fn = "jsonb" THEN With(JsonbParsed(cv), jc)
  ELSE IF px.fn = "json_valid"
    THEN With(ValidEnd(cv),
              IF cv.rc # 0 THEN jc
              ELSE ParseFree(TextInserted(cv), LastSlot(TextInserted(cv))))
  ELSE JsonParsed(cv, TextInserted(cv))

\* jsonReturnString
jsonReturnString(r) ==
  IF r.eErr THEN ResultError("malformed JSON") ELSE ResultText(r.out)

\* jsonReturnString caches the parse it was given under a text that left
\* zSpace
CachesResult == ~px.r.eErr /\ ~IsStatic(px.r.out)

\* the cache after jsonReturnString(&s, p, ctx) and jsonParseFree(p)
ResultCached ==
  IF CachesResult
    THEN ParseFree(jsonCacheInsert(jc,
                     TextJsonParse(px.r.out, FreshId(jc), px.r.p.aBlob,
                                   px.pAddr, px.pNonstd)),
                   LastSlot(jsonCacheInsert(jc, NoParse)))
    ELSE jc


\* texts chosen for their features, one per line:
\*   {"a":1}   {"a":[1,2]}   {"a" : 1 , "b":2}   {a:1}   [1,]   {"a":1,}
\*   'a'   "\n"   "\u0041"   "\x41"   "\\'"   "a\"b"   0x1F   +1   1.
\*   .5   -Infinity   NaN   [1] x   [1]/**/   /*c*/1   //c\n1   1e5   1E+5
\*   -0.5e-1   true   false   null    [ 1 , 2 ]    {"a":{"b":null}}
\*   [[],{}]   [1 2]   {"a" 1}   {"a":}   tru   "abc   01   1e   \t[\n1\r]
\*   {"a":1,"a":2}   [true,false,null]   {"":0}   "\/"   [1\x0b]
\*   {"a"\x0c:1}   "a\x01"   [-]
ChosenTexts ==
  { << 123, 34, 97, 34, 58, 49, 125 >>,
    << 123, 34, 97, 34, 58, 91, 49, 44, 50, 93, 125 >>,
    << 123, 34, 97, 34, 32, 58, 32, 49, 32, 44, 32, 34, 98, 34, 58, 50, 125 >>,
    << 123, 97, 58, 49, 125 >>,
    << 91, 49, 44, 93 >>,
    << 123, 34, 97, 34, 58, 49, 44, 125 >>,
    << 39, 97, 39 >>,
    << 34, 92, 110, 34 >>,
    << 34, 92, 117, 48, 48, 52, 49, 34 >>,
    << 34, 92, 120, 52, 49, 34 >>,
    << 34, 92, 39, 34 >>,
    << 34, 97, 92, 34, 98, 34 >>,
    << 48, 120, 49, 70 >>,
    << 43, 49 >>,
    << 49, 46 >>,
    << 46, 53 >>,
    << 45, 73, 110, 102, 105, 110, 105, 116, 121 >>,
    << 78, 97, 78 >>,
    << 91, 49, 93, 32, 120 >>,
    << 91, 49, 93, 47, 42, 42, 47 >>,
    << 47, 42, 99, 42, 47, 49 >>,
    << 47, 47, 99, 10, 49 >>,
    << 49, 101, 53 >>,
    << 49, 69, 43, 53 >>,
    << 45, 48, 46, 53, 101, 45, 49 >>,
    << 116, 114, 117, 101 >>,
    << 102, 97, 108, 115, 101 >>,
    << 110, 117, 108, 108 >>,
    << 32, 91, 32, 49, 32, 44, 32, 50, 32, 93, 32 >>,
    << 123, 34, 97, 34, 58, 123, 34, 98, 34, 58, 110, 117, 108, 108, 125, 125 >>,
    << 91, 91, 93, 44, 123, 125, 93 >>,
    << 91, 49, 32, 50, 93 >>,
    << 123, 34, 97, 34, 32, 49, 125 >>,
    << 123, 34, 97, 34, 58, 125 >>,
    << 116, 114, 117 >>,
    << 34, 97, 98, 99 >>,
    << 48, 49 >>,
    << 49, 101 >>,
    << 9, 91, 10, 49, 13, 93 >>,
    << 123, 34, 97, 34, 58, 49, 44, 34, 97, 34, 58, 50, 125 >>,
    << 91, 116, 114, 117, 101, 44, 102, 97, 108, 115, 101, 44, 110, 117, 108, 108, 93 >>,
    << 123, 34, 34, 58, 48, 125 >>,
    << 34, 92, 47, 34 >>,
    << 91, 49, 11, 93 >>,
    << 123, 34, 97, 34, 12, 58, 49, 125 >>,
    << 34, 97, 1, 34 >>,
    << 91, 45, 93 >> }


\* the longest text of the texts that are enumerated
MaxText == 3

\* the characters of the enumerated texts:  [ ] , 1 " space - . e 0
TextAlphabet == { 91, 93, 44, 49, 34, 32, 45, 46, 101, 48 }

ShortTexts(n) == UNION { [1..k -> TextAlphabet] : k \in 0..n }

\* n arrays inside each other, as text:  [[[ ... ]]]
NestText(n) == [k \in 1..2 * n |-> IF k <= n THEN CH_LBRACKET ELSE CH_RBRACKET]

\* n arrays inside each other, as JSONB: each array has a header with a
\* two-byte size and holds the next array, the innermost is empty
NestBlob(n) ==
  [k \in 1..3 * n |->
     IF (k - 1) % 3 = 0 THEN JSONB_ARRAY + 208
     ELSE IF (k - 1) % 3 = 1 THEN ((3 * (n - 1 - (k - 1) \div 3)) \div 256) % 256
     ELSE (3 * (n - 1 - (k - 1) \div 3)) % 256]

\* nestings around the limit
DeepNests == { JSON_MAX_DEPTH - 1, JSON_MAX_DEPTH, JSON_MAX_DEPTH + 1 }

\* blobs that are no JSONB:  empty   an unknown kind   a null with payload
BadBlobs == { <<>>, << 13 >>, << 16, 0 >> }

\* the largest FLAGS argument given to json_valid()
MaxFlags == 16

\* container nesting of a text: the deepest bracket outside of strings
RECURSIVE NestingFrom(_,_,_,_,_)
NestingFrom(z, i, d, inStr, deepest) ==
  IF i > Len(z) THEN deepest
  ELSE IF inStr
    THEN IF z[i] = CH_BACKSLASH THEN NestingFrom(z, i + 2, d, TRUE, deepest)
         ELSE NestingFrom(z, i + 1, d, z[i] # CH_DQUOTE, deepest)
  ELSE IF z[i] = CH_DQUOTE THEN NestingFrom(z, i + 1, d, TRUE, deepest)
  ELSE IF z[i] = CH_LBRACKET \/ z[i] = CH_LBRACE
    THEN NestingFrom(z, i + 1, d + 1, FALSE,
                     IF d + 1 > deepest THEN d + 1 ELSE deepest)
  ELSE IF z[i] = CH_RBRACKET \/ z[i] = CH_RBRACE
    THEN NestingFrom(z, i + 1, d - 1, FALSE, deepest)
  ELSE NestingFrom(z, i + 1, d, FALSE, deepest)

TextNesting(z) == NestingFrom(z, 1, 0, FALSE, 0)

\* container nesting of the element at i of a well-formed blob
RECURSIVE BlobNesting(_,_)
RECURSIVE KidsNesting(_,_,_)
KidsNesting(a, j, iEnd) ==
  IF j >= iEnd THEN 0
  ELSE LET d == BlobNesting(a, j)
           e == KidsNesting(a, ElemEnd(a, j), iEnd)
       IN IF d > e THEN d ELSE e

BlobNesting(a, i) ==
  IF Kind(a, i) >= JSONB_ARRAY
    THEN 1 + KidsNesting(a, i + HdrLen(a, i), ElemEnd(a, i))
    ELSE 0

\* the calls of json()
JsonCalls ==
  { XlateCallOf("json", SqlText(z), 0, TextNesting(z)) :
      z \in ShortTexts(MaxText) \cup ChosenTexts }
  \cup { XlateCallOf("json", SqlText(NestText(n)), 0, n) : n \in DeepNests }
  \cup { XlateCallOf("json", SqlBlob(NestBlob(n)), 0, n) : n \in DeepNests }
  \cup { XlateCallOf("json", SqlBlob(a), 0, BlobNesting(a, 0)) : a \in InitDocs }
  \cup { XlateCallOf("json", SqlBlob(a), 0, 0) : a \in MalformedDocs \cup BadBlobs }
  \cup { XlateCallOf("json", SqlNull, 0, 0) }

\* the characters of numeric literals:  + - . 0 1 e x
NumberAlphabet == { 43, 45, 46, 48, 49, 101, 120 }

\* the longest numeric literal of those that are enumerated
MaxNumber == 3

\* longer literals:  +1.5  +1e1  +.5e1  +0x1  -0x1  0x1e  1.e1  1.5e-1  1E1
ChosenNumbers ==
  { << 43, 49, 46, 53 >>, << 43, 49, 101, 49 >>, << 43, 46, 53, 101, 49 >>,
    << 43, 48, 120, 49 >>, << 45, 48, 120, 49 >>, << 48, 120, 49, 101 >>,
    << 49, 46, 101, 49 >>, << 49, 46, 53, 101, 45, 49 >>, << 49, 69, 49 >> }

NumberTexts ==
  UNION { [1..k -> NumberAlphabet] : k \in 1..MaxNumber } \cup ChosenNumbers

\* the calls of jsonb()
JsonbCalls ==
  { XlateCallOf("jsonb", SqlText(z), 0, TextNesting(z)) :
      z \in ShortTexts(1) \cup ChosenTexts }
  \cup { XlateCallOf("jsonb", SqlText(z), 0, 0) : z \in NumberTexts }
  \cup { XlateCallOf("jsonb", SqlBlob(NestBlob(n)), 0, n) : n \in DeepNests }
  \cup { XlateCallOf("jsonb", SqlBlob(a), 0, BlobNesting(a, 0)) : a \in InitDocs }
  \cup { XlateCallOf("jsonb", SqlBlob(a), 0, 0) : a \in BadBlobs }
  \cup { XlateCallOf("jsonb", SqlNull, 0, 0) }

\* the calls of json_valid(): the one-argument form is FLAGS = 1
ValidCalls ==
  { XlateCallOf("json_valid", SqlText(z), 1, TextNesting(z)) :
      z \in ShortTexts(MaxText) }
  \cup { XlateCallOf("json_valid", SqlText(z), f, TextNesting(z)) :
           z \in ShortTexts(1) \cup ChosenTexts, f \in 0..MaxFlags }
  \cup { XlateCallOf("json_valid", SqlBlob(a), f, 0) :
           a \in InitDocs \cup MalformedDocs \cup BadBlobs, f \in 0..MaxFlags }
  \cup { XlateCallOf("json_valid", SqlNull, f, 0) : f \in 0..MaxFlags }

\* the character the parser is entered at
AtChar == zAt(px.m.p.zJson, px.m.i)

Parsing(pc) == px.phase = "parse" /\ px.m.pc = pc

Rendering(pc) == px.phase = "render" /\ px.r.pc = pc

\* jsonCacheSearch, or no slot and the cache as it is
Searched ==
  IF Searches THEN jsonCacheSearch(jc, px.arg, px.argId)
  ELSE [i |-> -1, c |-> jc]

Started ==
  IF px.fn = "jsonb" THEN With(JsonbStart, jc)
  ELSE IF px.fn = "json_valid" THEN ValidStart(Searched)
  ELSE JsonStart(Searched)

\* the SQL function is called: its argument is looked at and looked up
Begin ==
  /\ px.phase = "start"
  /\ px' = [Started.x EXCEPT !.hit = Searched.i, !.jc1 = Searched.c]
  /\ jc' = Started.c
  /\ UNCHANGED << doc, last, nCalls, faults, hc, hp >>

\* jsonXlateTextToBlob is entered at '{' or '['
XlateEnter ==
  /\ Parsing("call") /\ IsOpen(AtChar)
  /\ px' = [px EXCEPT !.m = IF AtChar = CH_LBRACE THEN OpenObject(px.m)
                             ELSE OpenArray(px.m)]
  /\ UNCHANGED << doc, last, nCalls, faults, jc, hc, hp >>

\* jsonXlateTextToBlob is entered at white space
XlateSpace ==
  /\ Parsing("call") /\ IsRestart(AtChar)
  /\ px' = [px EXCEPT !.m = XlateRestart(px.m)]
  /\ UNCHANGED << doc, last, nCalls, faults, jc, hc, hp >>

\* jsonXlateTextToBlob is entered at anything else and returns
XlateElement ==
  /\ Parsing("call") /\ ~IsOpen(AtChar) /\ ~IsRestart(AtChar)
  /\ px' = [px EXCEPT !.m = XlateLeaf(px.m, XlatePrimitive(px.m.p, px.m.i))]
  /\ UNCHANGED << doc, last, nCalls, faults, jc, hc, hp >>

\* a call of jsonXlateTextToBlob returns into the loop of a container
XlateBack ==
  /\ Parsing("ret") /\ px.m.stk # <<>>
  /\ px' = [px EXCEPT !.m = XlateResume(px.m)]
  /\ UNCHANGED << doc, last, nCalls, faults, jc, hc, hp >>

Converted == jsonConvertTextToBlob(px.m, px.fn # "json_valid")

\* jsonParseFuncArg reaches jsonCacheInsert
InsertsText == px.fn # "jsonb" /\ Converted.rc = 0

AfterParse == TextParsedBy(Converted)

\* jsonXlateTextToBlob(pParse, 0) returns to jsonConvertTextToBlob
XlateEnd ==
  /\ Parsing("ret") /\ px.m.stk = <<>>
  /\ px' = [AfterParse.x EXCEPT !.ins = IF InsertsText
                                           THEN Append(@, TextInserted(Converted).a[LastSlot(TextInserted(Converted))].zId)
                                           ELSE @]
  /\ jc' = AfterParse.c
  /\ UNCHANGED << doc, last, nCalls, faults, hc, hp >>

\* jsonXlateBlobToText is entered at an array or object
RenderEnter ==
  /\ Rendering("call")
  /\ jsonbPayloadSize(px.r.p, px.r.j).n # 0
  /\ IsContainer(px.r.p.aBlob, px.r.j)
  /\ px' = [px EXCEPT !.r = RenderOpen(px.r,
                                       jsonbPayloadSize(px.r.p, px.r.j).n,
                                       jsonbPayloadSize(px.r.p, px.r.j).sz)]
  /\ UNCHANGED << doc, last, nCalls, faults, jc, hc, hp >>

\* jsonXlateBlobToText is entered at anything else and returns
RenderElement ==
  /\ Rendering("call")
  /\ ~(jsonbPayloadSize(px.r.p, px.r.j).n # 0
       /\ IsContainer(px.r.p.aBlob, px.r.j))
  /\ px' = [px EXCEPT !.r = RenderLeaf(px.r,
                                       jsonXlateBlobToText(px.r.p, px.r.j))]
  /\ UNCHANGED << doc, last, nCalls, faults, jc, hc, hp >>

\* the loop of a container: the next child or the closing bracket
RenderNext ==
  /\ Rendering("loop")
  /\ px' = [px EXCEPT !.r = RenderLoop(px.r)]
  /\ UNCHANGED << doc, last, nCalls, faults, jc, hc, hp >>

\* a call of jsonXlateBlobToText returns into the loop of a container
RenderBack ==
  /\ Rendering("ret") /\ px.r.stk # <<>>
  /\ px' = [px EXCEPT !.r = RenderReturned(px.r)]
  /\ UNCHANGED << doc, last, nCalls, faults, jc, hc, hp >>

\* jsonXlateBlobToText(p, 0, &s) returns to jsonReturnParse
RenderEnd ==
  /\ Rendering("ret") /\ px.r.stk = <<>>
  /\ px' = [Done(jsonReturnString(px.r))
             EXCEPT !.resId = IF CachesResult THEN FreshId(jc) ELSE @,
                    !.ins = IF CachesResult THEN Append(@, FreshId(jc)) ELSE @]
  /\ jc' = ResultCached
  /\ UNCHANGED << doc, last, nCalls, faults, hc, hp >>

NextXlate ==
  \/ Begin
  \/ XlateEnter \/ XlateSpace \/ XlateElement \/ XlateBack \/ XlateEnd
  \/ RenderEnter \/ RenderElement \/ RenderNext \/ RenderBack \/ RenderEnd

InitXlate ==
  /\ doc = << 0 >>
  /\ last = NoCall
  /\ nCalls = 0
  /\ faults = FALSE
  /\ px \in JsonCalls \cup JsonbCalls \cup ValidCalls
  /\ jc = NoCache
  /\ hc = NoCodec
  /\ hp = NoHeap

SpecXlate == InitXlate /\ [][NextXlate]_vars

(***************************************************************************)
(* Calls that share the parse cache of one statement                       *)
(*   A call begins when the one before it is done; the cache is what the   *)
(*   earlier calls left.  The texts: "[1]", " [2]", "[" and a canonical    *)
(*   text of more than zSpaceSize bytes, which json() returns as it is, in *)
(*   an RCStr of its own.  Each of them nests one container.               *)
(***************************************************************************)
X24 == X10 \o X10 \o << 120, 120, 120, 120 >>

Quoted(z) == << 34 >> \o z \o << 34 >>

LongText ==
  << 91 >> \o Quoted(X24) \o << 44 >> \o Quoted(X24) \o << 44 >>
  \o Quoted(X24) \o << 44 >> \o Quoted(X24) \o << 93 >>

\* the long text with a space in front and a comma behind its last
\* element (JSON5)
LongText5 ==
  << 32, 91 >> \o Quoted(X24) \o << 44 >> \o Quoted(X24) \o << 44 >>
  \o Quoted(X24) \o << 44 >> \o Quoted(X24) \o << 44, 93 >>

CacheTexts ==
  { << 91, 49, 93 >>, << 32, 91, 50, 93 >>, << 91 >> }

CacheCallOf(fn, arg, argId, paths, flags, c) ==
  [XlateCallOf(fn, arg, flags, 1)
     EXCEPT !.argId = argId, !.paths = paths, !.jc0 = c, !.jc1 = c]

\* the calls that can follow when the cache is c: json_valid of a text,
\* jsonb_remove of the first element of "[1]", json of the long text, and
\* json_valid of the text value the statement holds
CacheCalls(c) ==
  { CacheCallOf("json_valid", SqlText(z), 0, <<>>, 1, c) : z \in CacheTexts }
  \cup { CacheCallOf("jsonb_remove", SqlText(<< 91, 49, 93 >>), 0,
                     << Path(<< Idx(0) >>).arg >>, 0, c),
         CacheCallOf("json", SqlText(LongText), 0, <<>>, 0, c) }
  \cup IF c.val.id = 0 THEN {}
       ELSE { CacheCallOf("json_valid", SqlText(c.val.z), c.val.id, <<>>, 1,
                          c) }

\* the statement keeps the RCStr text the call returned
ValueKept ==
  IF px.resId # 0 THEN [jc EXCEPT !.val = [z |-> px.res.blob, id |-> px.resId]]
  ELSE jc

\* the call is over and the statement makes its next call
NextCall ==
  /\ px.phase = "done"
  /\ jc' = ValueKept
  /\ px' \in CacheCalls(ValueKept)
  /\ UNCHANGED << doc, last, nCalls, faults, hc, hp >>

NextCache == NextXlate \/ NextCall

InitCache ==
  /\ doc = << 0 >>
  /\ last = NoCall
  /\ nCalls = 0
  /\ faults = FALSE
  /\ jc = NoCache
  /\ hc = NoCodec
  /\ hp = NoHeap
  /\ px \in CacheCalls(NoCache)

SpecCache == InitCache /\ [][NextCache]_vars

(***************************************************************************)
(* Calls that find in the cache what an earlier call rendered              *)
(***************************************************************************)
\* the calls that can follow when the cache is c: json of the long text in
\* JSON5 form, json_valid of the long text and of the text value the
\* statement holds, with FLAGS 1 (RFC 8259) or 2 (JSON5)
HitCalls(c) ==
  { CacheCallOf("json", SqlText(LongText5), 0, <<>>, 0, c) }
  \cup { CacheCallOf("json_valid", SqlText(z), 0, <<>>, f, c) :
           z \in { LongText }, f \in 1..2 }
  \cup IF c.val.id = 0 THEN {}
       ELSE { CacheCallOf("json_valid", SqlText(c.val.z), c.val.id, <<>>, f,
                          c) : f \in 1..2 }

NextHitCall ==
  /\ px.phase = "done"
  /\ jc' = ValueKept
  /\ px' \in HitCalls(ValueKept)
  /\ UNCHANGED << doc, last, nCalls, faults, hc, hp >>

NextHit == NextXlate \/ NextHitCall

InitHit ==
  /\ doc = << 0 >>
  /\ last = NoCall
  /\ nCalls = 0
  /\ faults = FALSE
  /\ jc = NoCache
  /\ hc = NoCodec
  /\ hp = NoHeap
  /\ px \in HitCalls(NoCache)

SpecHit == InitHit /\ [][NextHit]_vars

(***************************************************************************)
(* Element headers written and read                                        *)
(*   hc is one use of the header codec.  jsonBlobAppendNode writes the     *)
(*   header of an element of kind eType and payload size sz, or            *)
(*   jsonBlobChangePayloadSize stores the size sz in the header that a     *)
(*   holds (phase "arg"); then jsonbPayloadSize reads the header at offset *)
(*   i of the buffer a, of which nBlob bytes are in use (phase "written"), *)
(*   and returns the header length n and the payload size osz (phase       *)
(*   "read").  The bytes of a payload, which none of the three looks at,   *)
(*   are not held in a: nBlob counts them.                                 *)
(***************************************************************************)
\* payload sizes at and around the limits of the size classes
CodecSizes ==
  { 0, 1, 11, 12, 200, 255, 256, 65535, 65536, 16777216, 1000000000 }

\* byte j (0 the least significant) of the size s
SizeByte(s, j) ==
  IF j = 0 THEN s % 256
  ELSE IF j = 1 THEN (s \div 256) % 256
  ELSE IF j = 2 THEN (s \div 65536) % 256
  ELSE (s \div 16777216) % 256

\* the header of an element of kind k whose size class is cls >= 12 and
\* whose size integer is s, as the format lays it out
ClassHeader(k, cls, s) ==
  IF cls = 12 THEN << k + 192, SizeByte(s, 0) >>
  ELSE IF cls = 13 THEN << k + 208, SizeByte(s, 1), SizeByte(s, 0) >>
  ELSE IF cls = 14
    THEN << k + 224, SizeByte(s, 3), SizeByte(s, 2), SizeByte(s, 1),
            SizeByte(s, 0) >>
  ELSE << k + 240, 0, 0, 0, 0, SizeByte(s, 3), SizeByte(s, 2),
          SizeByte(s, 1), SizeByte(s, 0) >>

\* the length of a header of size class cls
ClassLen(cls) ==
  IF cls <= 11 THEN 1 ELSE IF cls = 12 THEN 2 ELSE IF cls = 13 THEN 3
  ELSE IF cls = 14 THEN 5 ELSE 9

\* the u32 sizes 2^32 - 5 and 2^32 - 1 (a u32 from 2^31 is held as the
\* negative number congruent to it)
HugeSizes == { -5, -1 }

\* a header of size class cls >= 12 can hold the size s
ClassHolds(cls, s) ==
  IF cls = 12 THEN s >= 0 /\ s <= 255
  ELSE IF cls = 13 THEN s >= 0 /\ s <= 65535
  ELSE TRUE

\* two bytes that precede the element read: the headers of two arrays
CodecPrefix == << 203, 0 >>

CodecCall(op, phase, eType, sz, a, nBlob, i) ==
  [NoCodec EXCEPT !.op = op, !.phase = phase, !.eType = eType, !.sz = sz,
                  !.a = a, !.nBlob = nBlob, !.i = i]

\* jsonBlobAppendNode(pParse, eType, sz, 0) on an empty JsonParse
AppendCalls ==
  { CodecCall("append", "arg", k, s, <<>>, 0, 0) :
      k \in JSONB_NULL..JSONB_OBJECT, s \in CodecSizes }

\* jsonBlobChangePayloadSize(pParse, 0, sz) on the header of a container or
\* text of payload size s0
ChangeCalls ==
  { CodecCall("change", "arg", k, s, NodeHeader(k, s0), Len(NodeHeader(k, s0)), 0) :
      k \in {JSONB_TEXT, JSONB_ARRAY, JSONB_OBJECT},
      s \in CodecSizes, s0 \in {0, 12, 256, 65536} }

\* the number of bytes in use that a header of length hl and size s at
\* offset i is read with: the element fits exactly (1), the buffer is
\* longer (2), it is one byte short (3), the header lacks its last byte
\* (4), the buffer ends with the header (5)
CodecLength(opt, i, hl, s) ==
  IF opt = 1 THEN i + hl + s
  ELSE IF opt = 2 THEN i + hl + s + 3
  ELSE IF opt = 3 THEN i + hl + s - 1
  ELSE IF opt = 4 THEN i + hl - 1
  ELSE i + hl

\* kind, offset, size class, size and length of the buffer
DecodeArgs ==
  { t \in {JSONB_INT, JSONB_ARRAY} \X {0, 2} \X (12..15)
          \X (CodecSizes \cup HugeSizes) \X (1..5) :
      /\ ClassHolds(t[3], t[4])
      /\ t[4] \in HugeSizes => t[5] >= 4 }

\* jsonbPayloadSize(pParse, i, &sz) on headers of every size class from
\* 12, among them headers that hold a size near 2^32
DecodeCalls ==
  { CodecCall("decode", "written", t[1], t[4],
              SubSeq(CodecPrefix, 1, t[2]) \o ClassHeader(t[1], t[3], t[4]),
              CodecLength(t[5], t[2], ClassLen(t[3]), t[4]), t[2]) :
      t \in DecodeArgs }

HeaderWritten(a) ==
  [hc EXCEPT !.phase = "written", !.a = a, !.nBlob = Len(a) + hc.sz]

\* the header of a new element is appended
AppendNode ==
  /\ hc.op = "append" /\ hc.phase = "arg"
  /\ hc' = HeaderWritten(
             jsonBlobAppendNode(NewParse(<<>>, 0, 0), hc.eType, hc.sz,
                                <<>>, FALSE).aBlob)
  /\ UNCHANGED << doc, last, nCalls, faults, px, jc, hp >>

\* the size of an element is stored in its header
ChangeSize ==
  /\ hc.op = "change" /\ hc.phase = "arg"
  /\ hc' = HeaderWritten(
             jsonBlobChangePayloadSize(
               [NewParse(hc.a, 1, 0) EXCEPT !.nBlobAlloc = 100],
               0, hc.sz).p.aBlob)
  /\ UNCHANGED << doc, last, nCalls, faults, px, jc, hp >>

\* the header at offset i is read, no edit being in progress
ReadHeader ==
  /\ hc.phase = "written"
  /\ hc' = [hc EXCEPT !.phase = "read",
                      !.n = PayloadSizeAt(hc.a, hc.nBlob, 0, hc.i).n,
                      !.osz = PayloadSizeAt(hc.a, hc.nBlob, 0, hc.i).sz]
  /\ UNCHANGED << doc, last, nCalls, faults, px, jc, hp >>

NextCodec == AppendNode \/ ChangeSize \/ ReadHeader

InitCodec ==
  /\ doc = << 0 >>
  /\ last = NoCall
  /\ nCalls = 0
  /\ faults = FALSE
  /\ px = NoXlate
  /\ jc = NoCache
  /\ hc \in AppendCalls \cup ChangeCalls \cup DecodeCalls
  /\ hp = NoHeap

SpecCodec == InitCodec /\ [][NextCodec]_vars

(***************************************************************************)
(* References to JsonParse objects: SQL functions called step by step      *)
(*   hp.a is the array of the cache, hp.p and hp.pPatch the objects the    *)
(*   function in progress got from jsonParseFuncArg, hp.dbl says that an   *)
(*   object was released after it was freed, hp.uaf that bytes were read   *)
(*   from memory that was released.                                        *)
(***************************************************************************)
RefArgs ==
  { SqlText(t) : t \in { "long", "long5", "short", "bad" } }
  \cup { SqlBlob("long") }

RefCallOf(fn, blobOut, args) ==
  [hp EXCEPT !.fn = fn, !.blobOut = blobOut, !.args = args, !.pc = "arg0",
             !.n = @ + 1]

\* json_valid(X); json(X) and jsonb(X) by jsonRemoveFunc with one
\* argument; json_set(X) and jsonb_set(X) with one argument;
\* json_patch(X, Y) and jsonb_patch(X, Y)
RefCalls ==
  { RefCallOf("json_valid", FALSE, << x >>) :
      x \in { y \in RefArgs : y.type = "text" } }
  \cup { RefCallOf(fn, b, << x >>) :
           fn \in { "json", "json_set" }, b \in BOOLEAN, x \in RefArgs }
  \cup { RefCallOf("json_patch", b, << x, y >>) :
           b \in BOOLEAN, x \in { SqlText("long5"), SqlBlob("long") },
           y \in { SqlText("short"), SqlText("long"), SqlText("bad") } }

\* the statement calls a function
RefBegin ==
  /\ hp.pc = "idle" /\ hp.n < MaxRefCalls
  /\ hp' \in RefCalls
  /\ UNCHANGED << doc, last, nCalls, faults, px, jc, hc >>

FirstParsed ==
  ObjParseFuncArg(hp, hp.args[1], hp.fn \in { "json", "json_patch" },
                  hp.fn = "json_valid")

\* p = jsonParseFuncArg(ctx, argv[0], flgs);  if( p==0 ) return;
RefFirstArg ==
  /\ hp.pc = "arg0"
  /\ hp' = IF FirstParsed.p = 0 THEN ArgsReleased(FirstParsed.h)
           ELSE [FirstParsed.h
                   EXCEPT !.p = FirstParsed.p,
                          !.pc = IF hp.fn = "json_patch" THEN "arg1"
                                 ELSE IF hp.fn = "json_valid" THEN "free0"
                                 ELSE "ret"]
  /\ UNCHANGED << doc, last, nCalls, faults, px, jc, hc >>

SecondParsed == ObjParseFuncArg(hp, hp.args[2], FALSE, FALSE)

\* pPatch = jsonParseFuncArg(ctx, argv[1], 0) of jsonPatchFunc
RefSecondArg ==
  /\ hp.pc = "arg1"
  /\ hp' = [SecondParsed.h EXCEPT !.pPatch = SecondParsed.p,
                                 !.pc = IF SecondParsed.p = 0 THEN "free0"
                                        ELSE "ret"]
  /\ UNCHANGED << doc, last, nCalls, faults, px, jc, hc >>

\* jsonMergePatchBlob reads the patch; then jsonReturnParse(ctx, p)
RefReturn ==
  /\ hp.pc = "ret"
  /\ hp' = [ObjReturnParse(IF hp.pPatch # 0 THEN ReadBlob(hp, hp.pPatch)
                           ELSE hp, hp.p)
              EXCEPT !.pc = IF hp.pPatch # 0 THEN "free1" ELSE "free0"]
  /\ UNCHANGED << doc, last, nCalls, faults, px, jc, hc >>

\* jsonParseFree(pPatch)
RefFreePatch ==
  /\ hp.pc = "free1"
  /\ hp' = [ObjFree(hp, hp.pPatch) EXCEPT !.pPatch = 0, !.pc = "free0"]
  /\ UNCHANGED << doc, last, nCalls, faults, px, jc, hc >>

\* jsonParseFree(p) and the return of the function
RefFree ==
  /\ hp.pc = "free0"
  /\ hp' = ArgsReleased(ObjFree(hp, hp.p))
  /\ UNCHANGED << doc, last, nCalls, faults, px, jc, hc >>

\* the host releases a result whose blob it was given
RefHostFree ==
  /\ hp.pc = "idle"
  /\ \E q \in 1..NParse :
       /\ hp.obj[q].aBlob = "host"
       /\ hp' = [hp EXCEPT !.obj[q].aBlob = "dead"]
  /\ UNCHANGED << doc, last, nCalls, faults, px, jc, hc >>

\* the statement is reset or finalized: jsonCacheDelete
RefCacheDelete ==
  /\ hp.pc = "idle" /\ hp.a # <<>>
  /\ hp' = ObjFreeAll(hp, 1)
  /\ UNCHANGED << doc, last, nCalls, faults, px, jc, hc >>

NextRef ==
  \/ RefBegin \/ RefFirstArg \/ RefSecondArg \/ RefReturn \/ RefFreePatch
  \/ RefFree \/ RefHostFree \/ RefCacheDelete

InitRef ==
  /\ doc = << 0 >>
  /\ last = NoCall
  /\ nCalls = 0
  /\ faults = FALSE
  /\ px = NoXlate
  /\ jc = NoCache
  /\ hc = NoCodec
  /\ hp = NoHeap

SpecRef == InitRef /\ [][NextRef]_vars

(***************************************************************************)
(* RFC 8259 texts                                                          *)
(*   The grammar of RFC 8259 as a recogniser: each operator returns the    *)
(*   offset behind what it recognised at offset i, or -1.                  *)
(***************************************************************************)
RfcIsWs(c) == c = 32 \/ c = 9 \/ c = 10 \/ c = 13

RECURSIVE RfcWs(_,_)
RfcWs(z, i) == IF i < Len(z) /\ RfcIsWs(zAt(z, i)) THEN RfcWs(z, i + 1) ELSE i

RfcIsDigit(c) == c >= 48 /\ c <= 57

RfcIsHex(c) == RfcIsDigit(c) \/ (c >= 65 /\ c <= 70) \/ (c >= 97 /\ c <= 102)

RECURSIVE RfcDigits(_,_)
RfcDigits(z, i) ==
  IF i < Len(z) /\ RfcIsDigit(zAt(z, i)) THEN RfcDigits(z, i + 1) ELSE i

\* the characters of a string from offset i to the closing quotation mark
RECURSIVE RfcChars(_,_)
RfcChars(z, i) ==
  IF i >= Len(z) THEN -1
  ELSE IF zAt(z, i) = 34 THEN i + 1
  ELSE IF zAt(z, i) < 32 THEN -1
  ELSE IF zAt(z, i) # 92 THEN RfcChars(z, i + 1)
  ELSE IF zAt(z, i + 1) \in { 34, 92, 47, 98, 102, 110, 114, 116 }
    THEN RfcChars(z, i + 2)
  ELSE IF zAt(z, i + 1) = 117 /\ i + 5 < Len(z)
          /\ \A k \in 2..5 : RfcIsHex(zAt(z, i + k))
    THEN RfcChars(z, i + 6)
  ELSE -1

\* exp = ( e / E ) [ minus / plus ] 1*DIGIT, optional, at offset i
RfcExp(z, i) ==
  LET s == IF zAt(z, i + 1) = 43 \/ zAt(z, i + 1) = 45 THEN i + 2 ELSE i + 1
  IN IF zAt(z, i) # 101 /\ zAt(z, i) # 69 THEN i
     ELSE IF RfcDigits(z, s) = s THEN -1 ELSE RfcDigits(z, s)

\* frac = decimal-point 1*DIGIT, optional, at offset i, and the exp
RfcFrac(z, i) ==
  IF zAt(z, i) # 46 THEN RfcExp(z, i)
  ELSE IF RfcDigits(z, i + 1) = i + 1 THEN -1
  ELSE RfcExp(z, RfcDigits(z, i + 1))

\* int = zero / ( digit1-9 *DIGIT ) at offset i, and what follows it
RfcInt(z, i) ==
  IF zAt(z, i) = 48 THEN RfcFrac(z, i + 1)
  ELSE IF RfcIsDigit(zAt(z, i)) THEN RfcFrac(z, RfcDigits(z, i))
  ELSE -1

RfcNumber(z, i) == RfcInt(z, IF zAt(z, i) = 45 THEN i + 1 ELSE i)

RfcLiteral(z, i, zLit) ==
  IF \A k \in 1..Len(zLit) : zAt(z, i + k - 1) = zLit[k] THEN i + Len(zLit)
  ELSE -1

RECURSIVE RfcValue(_,_)
RECURSIVE RfcElements(_,_)
RECURSIVE RfcMembers(_,_)
\* value *( ws "," ws value ) ws "]", at the first value
RfcElements(z, i) ==
  LET e == RfcValue(z, i)
      w == RfcWs(z, e)
  IN IF e = -1 THEN -1
     ELSE IF zAt(z, w) = 93 THEN w + 1
     ELSE IF zAt(z, w) = 44 THEN RfcElements(z, RfcWs(z, w + 1))
     ELSE -1

\* string ws ":" ws value *( ws "," ws member ) ws "}", at the first string
RfcMembers(z, i) ==
  LET s == IF zAt(z, i) = 34 THEN RfcChars(z, i + 1) ELSE -1
      c == RfcWs(z, s)
      e == RfcValue(z, RfcWs(z, c + 1))
      w == RfcWs(z, e)
  IN IF s = -1 THEN -1
     ELSE IF zAt(z, c) # 58 THEN -1
     ELSE IF e = -1 THEN -1
     ELSE IF zAt(z, w) = 125 THEN w + 1
     ELSE IF zAt(z, w) = 44 THEN RfcMembers(z, RfcWs(z, w + 1))
     ELSE -1

RfcValue(z, i) ==
  LET c == zAt(z, i)
      w == RfcWs(z, i + 1)
  IN IF i >= Len(z) THEN -1
     ELSE IF c = 91
       THEN IF zAt(z, w) = 93 THEN w + 1 ELSE RfcElements(z, w)
     ELSE IF c = 123
       THEN IF zAt(z, w) = 125 THEN w + 1 ELSE RfcMembers(z, w)
     ELSE IF c = 34 THEN RfcChars(z, i + 1)
     ELSE IF c = 116 THEN RfcLiteral(z, i, << 116, 114, 117, 101 >>)
     ELSE IF c = 102 THEN RfcLiteral(z, i, << 102, 97, 108, 115, 101 >>)
     ELSE IF c = 110 THEN RfcLiteral(z, i, << 110, 117, 108, 108 >>)
     ELSE RfcNumber(z, i)

\* JSON-text = ws value ws
IsRFC8259(z) ==
  /\ RfcValue(z, RfcWs(z, 0)) # -1
  /\ RfcWs(z, RfcValue(z, RfcWs(z, 0))) = Len(z)

\* z without its insignificant white space: the white space outside of
\* strings
RECURSIVE CanonFrom(_,_,_)
CanonFrom(z, i, inStr) ==
  IF i > Len(z) THEN <<>>
  ELSE IF inStr
    THEN IF z[i] = 92 /\ i < Len(z)
           THEN << z[i], z[i + 1] >> \o CanonFrom(z, i + 2, TRUE)
           ELSE << z[i] >> \o CanonFrom(z, i + 1, z[i] # 34)
  ELSE IF RfcIsWs(z[i]) THEN CanonFrom(z, i + 1, FALSE)
  ELSE << z[i] >> \o CanonFrom(z, i + 1, z[i] = 34)

NotWs(c) == ~RfcIsWs(c)

canonicalize(z) ==
  IF \A k \in 1..Len(z) : z[k] # 34 THEN SelectSeq(z, NotWs)
  ELSE CanonFrom(z, 1, FALSE)

(***************************************************************************)
(* Properties of the edit functions                                        *)
(***************************************************************************)
IsEdit == last.fn \in {"remove", "replace", "insert", "set"}

OnePath == Len(last.paths) = 1 /\ last.paths[1].wf

Steps1 == last.paths[1].steps

Before == Tree(last.before, 0)

Succeeded == last.res.type = "blob"

After == Tree(last.res.blob, 0)

\* the SQL function named fn applied to document a
EditFn(fn, a, pairs) ==
  IF fn = "replace" THEN jsonReplaceFunc(SqlBlob(a), pairs, 0)
  ELSE jsonSetFunc(SqlBlob(a), pairs, fn = "set", 0)

\* C1 -- Size discipline: the document the host holds, and every document
\* a successful remove / replace / insert / set / patch call returns for
\* it, is well formed: each container's declared payload length is the sum
\* of the header+payload lengths of its children, and the top element's
\* header+payload length is the length of the buffer.
C1_SizeDiscipline ==
  /\ WellFormed(doc)
  /\ Succeeded => WellFormed(last.res.blob)

\* a successful edit that made the header of the top element one byte
\* longer, above a nested container that grew as well
C1_Witness ==
  /\ IsEdit /\ Succeeded
  /\ last.res.blob # last.before
  /\ HdrLen(last.before, 0) = 1
  /\ HdrLen(last.res.blob, 0) = 2
  /\ OnePath /\ Len(Steps1) = 2

\* C2 -- Edit no-op law: remove with a well-formed path that resolves to no
\* element, insert with a path that resolves to an existing element, and
\* replace with a path that resolves to no element succeed and return the
\* document byte for byte.
C2_EditNoOp ==
  (/\ last.fn \in {"remove", "insert", "replace"}
   /\ OnePath
   /\ Resolves(Before, Steps1) <=> last.fn = "insert")
    => (Succeeded /\ last.res.blob = last.before)

\* insert on an existing member of a nested object
C2_Witness ==
  /\ last.fn = "insert" /\ OnePath
  /\ Len(Steps1) = 2 /\ IsKeyStep(Steps1[2])
  /\ Resolves(Before, Steps1)
  /\ last.vals[1] # SqlNull
  /\ Succeeded

\* C3 -- remove of a found element (other than the root) returns the
\* document without that element and, for an object member, without its
\* label; every other element keeps its bytes and its place.
C3_DeleteFound ==
  (/\ last.fn = "remove" /\ OnePath
   /\ Steps1 # <<>>
   /\ Resolves(Before, Steps1))
    => (/\ Succeeded
        /\ WellFormed(last.res.blob)
        /\ After = TreeDelete(Before, Steps1))

\* a member of a nested object is removed, its siblings stay
C3_Witness ==
  /\ last.fn = "remove" /\ OnePath
  /\ Len(Steps1) = 2 /\ IsKeyStep(Steps1[2])
  /\ Resolves(Before, Steps1)
  /\ Len(Before.kids) > 2
  /\ Succeeded

\* C4 -- replace and set on a found element (the root '$' included) return
\* the document with that element overwritten by the encoding of the
\* supplied value; its label and all other elements are unchanged.
C4_OverwriteFound ==
  (/\ last.fn \in {"replace", "set"} /\ OnePath
   /\ Resolves(Before, Steps1))
    => (/\ Succeeded
        /\ WellFormed(last.res.blob)
        /\ After = TreeReplace(Before, Steps1, ValueTree(last.vals[1])))

\* the value of an object member with a sibling is overwritten by a value
\* of another size
C4_Witness ==
  /\ last.fn \in {"replace", "set"} /\ OnePath
  /\ Len(Steps1) = 1 /\ IsKeyStep(Steps1[1])
  /\ Resolves(Before, Steps1)
  /\ Len(Before.kids) > 2
  /\ Succeeded
  /\ Len(last.res.blob) # Len(last.before)

\* C5 as stated -- insert and set with a path that does not resolve
\* materialize the rest of the path: a missing label becomes a new last
\* member, a missing array element a new last element, each missing
\* intermediate step an empty object or array.
C5_CreateMissingAny ==
  (/\ last.fn \in {"insert", "set"} /\ OnePath
   /\ ~Resolves(Before, Steps1)
   /\ TreeCreate(Before, Steps1, ValueTree(last.vals[1]), FALSE).ok)
    => (/\ Succeeded
        /\ After = TreeCreate(Before, Steps1, ValueTree(last.vals[1]),
                              FALSE).t)

\* C5 -- Create-missing: insert and set with a path that does not resolve
\* materialize the rest of the path when every missing array step
\* addresses the position after the last element ([N] with N the element
\* count, [#]) and every missing step meets a container of its kind: a
\* missing label becomes a new last member, a missing array element a new
\* last element, each missing intermediate step an empty object (next step
\* .name) or empty array (next step [...]).  Otherwise nothing is created
\* and the document is returned byte for byte.
C5_CreateMissing ==
  (/\ last.fn \in {"insert", "set"} /\ OnePath
   /\ ~Resolves(Before, Steps1))
    => LET c == TreeCreate(Before, Steps1, ValueTree(last.vals[1]), TRUE)
       IN /\ Succeeded
          /\ WellFormed(last.res.blob)
          /\ After = c.t
          /\ ~c.ok => last.res.blob = last.before

\* two missing steps are materialized: a new member holding a new
\* container holding the value
C5_Witness ==
  /\ last.fn \in {"insert", "set"} /\ OnePath
  /\ Len(Steps1) = 2
  /\ ChildPos(Before, Steps1[1]) = 0
  /\ TreeCreate(Before, Steps1, ValueTree(last.vals[1]), TRUE).ok
  /\ Succeeded
  /\ Resolves(After, Steps1)

\* C6 -- a two-pair insert / replace / set call gives what the two pairs
\* give as two calls, the second applied to the result of the first: the
\* pairs are applied left to right, each to the buffer the pairs before it
\* left.
C6_LeftToRight ==
  (/\ last.fn \in {"insert", "replace", "set"}
   /\ Len(last.paths) = 2)
    => LET pairs == Pairs(last.paths, last.vals)
           r1 == EditFn(last.fn, last.before, << pairs[1] >>).res
           r2 == EditFn(last.fn, r1.blob, << pairs[2] >>).res
       IN last.res = IF r1.type = "blob" THEN r2 ELSE r1

\* the second path goes through the member the first pair created
C6_Witness ==
  /\ last.fn = "set" /\ Len(last.paths) = 2
  /\ last.paths[1].wf /\ last.paths[2].wf
  /\ ~Resolves(Before, last.paths[1].steps)
  /\ Len(last.paths[2].steps) = 2
  /\ last.paths[2].steps[1] = last.paths[1].steps[1]
  /\ Succeeded
  /\ Resolves(After, last.paths[2].steps)

\* C7 -- Atomicity per call: a call that does not return a document leaves
\* the host's document as it was, having stored nothing outside the memory
\* it owns.
C7_Atomicity ==
  (last.fn # "none" /\ ~Succeeded)
    => (/\ doc = last.before
        /\ ~last.heapOvf
        /\ ~last.extWrite)

\* C8 -- Malformed-on-edit: when the navigation of remove, replace, insert
\* or set returns JSON_BLOB_ERROR, the call reports "malformed JSON".
C8_MalformedOnEdit ==
  (/\ IsEdit
   /\ last.rcs # <<>>
   /\ last.rcs[Len(last.rcs)] = JSON_BLOB_ERROR)
    => last.res = ResultError("malformed JSON")

(***************************************************************************)
(* RFC 7396 MergePatch on trees                                            *)
(***************************************************************************)
EmptyObject == Container(JSONB_OBJECT, <<>>)

\* no object of t has two members with the same label text
RECURSIVE NoDupLabels(_)
NoDupLabels(t) ==
  /\ t.kind = JSONB_OBJECT
       => \A i, j \in 1..Len(t.kids) :
            (i % 2 = 1 /\ j % 2 = 1 /\ i # j) => t.kids[i].text # t.kids[j].text
  /\ \A i \in 1..Len(t.kids) : NoDupLabels(t.kids[i])

\* MergePatch(Target, Patch) of RFC 7396, the members of Patch taken in
\* order from position i; a new member goes to the end of the target.
RECURSIVE MergePatch(_,_)
RECURSIVE MergeMembers(_,_,_)
MergeMembers(t, p, i) ==
  IF i + 1 > Len(p.kids) THEN t
  ELSE LET name == p.kids[i]
           value == p.kids[i + 1]
           c == MemberPos(t.kids, name.text, 1)
           t1 == IF value.kind = JSONB_NULL
                   THEN IF c # 0 THEN [t EXCEPT !.kids = RemoveAt(@, c - 1, 2)]
                        ELSE t
                 ELSE IF c # 0
                   THEN [t EXCEPT !.kids[c] = MergePatch(@, value)]
                 ELSE [t EXCEPT !.kids =
                         @ \o << name, MergePatch(EmptyObject, value) >>]
       IN MergeMembers(t1, p, i + 2)

MergePatch(t, p) ==
  IF p.kind # JSONB_OBJECT THEN p
  ELSE MergeMembers(IF t.kind # JSONB_OBJECT THEN EmptyObject ELSE t, p, 1)

\* C9 -- MergePatch correctness: for a well-formed target and patch whose
\* objects have no duplicate labels, jsonb_patch returns a well-formed
\* document whose element tree is RFC-7396 MergePatch(target, patch).  (The
\* patch is only read: jsonMergePatchBlob takes it as a const JsonParse
\* and returns nothing of it.)
C9_MergePatch ==
  (/\ last.fn = "patch"
   /\ WellFormed(last.before) /\ WellFormed(last.patch)
   /\ NoDupLabels(Before) /\ NoDupLabels(Tree(last.patch, 0)))
    => (/\ Succeeded
        /\ WellFormed(last.res.blob)
        /\ After = MergePatch(Before, Tree(last.patch, 0)))

\* a patch that deletes a member of a nested object of a target that has
\* a further member
C9_Witness ==
  /\ last.fn = "patch" /\ Succeeded
  /\ Before.kind = JSONB_OBJECT
  /\ Len(Before.kids) > 2
  /\ last.patch = << 108, 23, 97, 60, 23, 98, 0 >>
  /\ Resolves(Before, << Key(La), Key(Lb) >>)
  /\ ~Resolves(After, << Key(La), Key(Lb) >>)

\* C10 as stated -- patch(t, {}) is t for every document t.
C10_EmptyPatchIdentityAny ==
  (/\ last.fn = "patch"
   /\ Tree(last.patch, 0) = EmptyObject)
    => (Succeeded /\ After = Before)

\* C10 -- patch(t, {}) is t, byte for byte, for every object t; for a t
\* that is not an object it is the empty object.
C10_EmptyPatchIdentity ==
  (/\ last.fn = "patch"
   /\ Tree(last.patch, 0) = EmptyObject)
    => (/\ Succeeded
        /\ Before.kind = JSONB_OBJECT => last.res.blob = last.before
        /\ Before.kind # JSONB_OBJECT => After = EmptyObject)

\* an object with members is patched with {}
C10_Witness ==
  /\ last.fn = "patch" /\ Succeeded
  /\ Tree(last.patch, 0) = EmptyObject
  /\ Before.kind = JSONB_OBJECT
  /\ Len(Before.kids) > 0

(***************************************************************************)
(* Members of a merge-patched object                                       *)
(***************************************************************************)
\* label texts of the members of object t
Labels(t) == { t.kids[i].text : i \in { j \in 1..Len(t.kids) : j % 2 = 1 } }

\* label texts of the members of object p whose value is null
NullLabels(p) ==
  { p.kids[i].text :
      i \in { j \in 1..Len(p.kids) : j % 2 = 1 /\ p.kids[j + 1].kind = JSONB_NULL } }

\* the members of kids, from position i on, whose label is not in names
RECURSIVE Unnamed(_,_,_)
Unnamed(kids, names, i) ==
  IF i + 1 > Len(kids) THEN <<>>
  ELSE (IF kids[i].text \in names THEN <<>> ELSE << kids[i], kids[i + 1] >>)
       \o Unnamed(kids, names, i + 2)

\* no two members of object t have the same label text
NoDupTop(t) == Len(t.kids) = 2 * Cardinality(Labels(t))

PatchIsObject ==
  /\ last.fn = "patch"
  /\ WellFormed(last.before) /\ WellFormed(last.patch)
  /\ Kind(last.patch, 0) = JSONB_OBJECT

\* every label the patch gives null is absent from the result, and the
\* members of an object target that the patch does not name are in the
\* result as they were, in their order
NullStrips ==
  /\ Succeeded
  /\ WellFormed(last.res.blob)
  /\ After.kind = JSONB_OBJECT
  /\ NullLabels(Tree(last.patch, 0)) \cap Labels(After) = {}
  /\ Before.kind = JSONB_OBJECT
       => Unnamed(After.kids, Labels(Tree(last.patch, 0)), 1)
          = Unnamed(Before.kids, Labels(Tree(last.patch, 0)), 1)

\* C11 as stated -- for every target t and object patch p that gives key k
\* the value null, patch(t, p) has no member labelled k and the members of
\* t that p does not name are unchanged.
C11_NullStripsAny == PatchIsObject => NullStrips

\* C11 -- the same for every target whose top-level object does not repeat
\* a label (and a patch that does not repeat one): jsonb_patch deletes the
\* first member that carries the label, so a second one stays.
C11_NullStripsNoDup ==
  (/\ PatchIsObject
   /\ Before.kind = JSONB_OBJECT => NoDupTop(Before)
   /\ NoDupTop(Tree(last.patch, 0)))
    => NullStrips

\* {"a":null} strips a from an object without repeated labels that has a
\* and a further member
C11_Witness ==
  /\ PatchIsObject /\ Succeeded
  /\ Before.kind = JSONB_OBJECT /\ NoDupTop(Before)
  /\ La \in NullLabels(Tree(last.patch, 0))
  /\ La \in Labels(Before)
  /\ Len(Before.kids) > 2
  /\ Len(After.kids) = Len(Before.kids) - 2

(***************************************************************************)
(* Properties of the translations                                          *)
(***************************************************************************)
JsonDone == px.phase = "done" /\ px.fn \in {"json", "jsonb"}

\* the argument of the call is the text, or the JSONB, of px.depth arrays
\* inside each other
DeepText ==
  px.arg.type = "text" /\ px.depth \in DeepNests /\ px.arg.z = NestText(px.depth)

DeepBlob ==
  px.arg.type = "blob" /\ px.depth \in DeepNests /\ px.arg.z = NestBlob(px.depth)

\* the argument is JSON: a text of RFC 8259 or well-formed JSONB
ArgIsJson ==
  \/ DeepText \/ DeepBlob
  \/ (px.arg.type = "text" /\ px.depth <= MaxText + Len(px.arg.z)
      /\ IsRFC8259(px.arg.z))
  \/ (px.arg.type = "blob" /\ px.arg.z \in InitDocs)

\* the text argument was translated to JSONB
TextParsed ==
  /\ px.arg.type = "text"
  /\ px.phase \in {"render", "done"}
  /\ px.m.pc = "ret" /\ px.m.x > 0

\* C12 -- depth bound: json(X) and jsonb(X) of an X, text or JSONB, nested
\* deeper than JSON_MAX_DEPTH are the error "malformed JSON" and neither translation
\* ever has more than JSON_MAX_DEPTH activations; a JSON X nested
\* JSON_MAX_DEPTH deep or less is accepted; after a successful parse of a
\* text the depth counter is 0.
C12_DepthBound ==
  /\ Len(px.m.stk) <= JSON_MAX_DEPTH
  /\ Len(px.r.stk) <= JSON_MAX_DEPTH
  /\ (JsonDone /\ px.depth > JSON_MAX_DEPTH)
       => px.res = ResultError("malformed JSON")
  /\ (JsonDone /\ px.depth <= JSON_MAX_DEPTH /\ ArgIsJson)
       => px.res.type \in {"text", "blob"}
  /\ TextParsed => px.m.p.iDepth = 0

\* the bound as jsonXlateTextToBlob keeps it, for a text argument
C12_DepthBoundText ==
  px.arg.type = "text"
    => /\ Len(px.m.stk) <= JSON_MAX_DEPTH
       /\ (JsonDone /\ px.depth > JSON_MAX_DEPTH)
            => px.res = ResultError("malformed JSON")
       /\ (JsonDone /\ px.depth <= JSON_MAX_DEPTH /\ ArgIsJson)
            => px.res.type \in {"text", "blob"}
       /\ TextParsed => px.m.p.iDepth = 0

\* json(X) of a text X has returned
JsonTextDone == px.phase = "done" /\ px.fn = "json" /\ px.arg.type = "text"

\* the text argument is a text of RFC 8259 that the parser accepts: nested
\* JSON_MAX_DEPTH deep or less
StrictText ==
  IF DeepText THEN px.depth <= JSON_MAX_DEPTH ELSE IsRFC8259(px.arg.z)

HasSpace(z) == \E k \in 1..Len(z) : RfcIsWs(z[k])

\* C13 -- text round trip: json(t) of a text t of RFC 8259 is t without its
\* insignificant white space, render(parse(t)) = canonicalize(t).
C13_TextRoundTrip ==
  (JsonTextDone /\ StrictText) => px.res = ResultText(canonicalize(px.arg.z))

\* a text with white space outside and a string inside was parsed and
\* rendered
C13_Witness ==
  /\ JsonTextDone /\ StrictText
  /\ \E k \in 1..Len(px.arg.z) : px.arg.z[k] = 34
  /\ HasSpace(px.arg.z)
  /\ px.res.type = "text"

(***************************************************************************)
(* Array steps of a path                                                   *)
(***************************************************************************)
LastStep == Steps1[Len(Steps1)]

\* the element the last step of steps is applied to
RECURSIVE Parent(_,_)
Parent(t, steps) ==
  IF Len(steps) = 1 THEN t
  ELSE Parent(t.kids[ChildPos(t, Head(steps))], Tail(steps))

\* a path of labels that ends with an array step applied to an array
ArrayPath ==
  /\ OnePath /\ Steps1 # <<>>
  /\ ~IsKeyStep(LastStep)
  /\ \A i \in 1..(Len(Steps1) - 1) : IsKeyStep(Steps1[i])
  /\ Resolves(Before, SubSeq(Steps1, 1, Len(Steps1) - 1))
  /\ Parent(Before, Steps1).kind = JSONB_ARRAY

\* the zero-based index step s addresses in an array of cnt elements, with
\* '#' standing for the last element (cnt - 1) or for the count of
\* elements (cnt)
ArrayIndexOf(s, cnt, hashIsLast) ==
  IF s.k = "idx" THEN s.n
  ELSE IF hashIsLast THEN cnt - 1 - s.n
  ELSE cnt - s.n

\* t without element k of the array that steps leads to
RECURSIVE DeleteIn(_,_,_)
DeleteIn(t, steps, k) ==
  IF Len(steps) = 1 THEN [t EXCEPT !.kids = RemoveAt(@, k + 1, 1)]
  ELSE [t EXCEPT !.kids[ChildPos(t, Head(steps))] =
                   DeleteIn(@, Tail(steps), k)]

\* remove of an array path deletes the element of index k, and nothing
\* when the array has no such element
RemovesIndex(k) ==
  /\ Succeeded
  /\ After = IF k >= 0 /\ k < Len(Parent(Before, Steps1).kids)
               THEN DeleteIn(Before, Steps1, k)
               ELSE Before

\* C14 -- array path steps as described: '[N]' selects the element of
\* zero-based index N, '[#]' the last element of the array and '[#-N]' the
\* element N positions before the last.
C14_ArrayStepsFromLast ==
  (last.fn = "remove" /\ ArrayPath)
    => RemovesIndex(ArrayIndexOf(LastStep,
                                 Len(Parent(Before, Steps1).kids), TRUE))

\* C14 -- array path steps as amended: '[N]' selects the element of
\* zero-based index N; '#' stands for the number of elements, so '[#]'
\* selects no element (it is the position after the last one) and '[#-N]'
\* selects the element of index count - N: '[#-1]' is the last element.
C14_ArrayStepsFromCount ==
  (last.fn = "remove" /\ ArrayPath)
    => RemovesIndex(ArrayIndexOf(LastStep,
                                 Len(Parent(Before, Steps1).kids), FALSE))

\* '[#-1]' removed the last of two elements
C14_Witness ==
  /\ last.fn = "remove" /\ ArrayPath
  /\ LastStep = Hash(1)
  /\ Len(Before.kids) = 2 /\ Len(After.kids) = 1
  /\ After.kids[1] = Before.kids[1]

(***************************************************************************)
(* The grammar of paths                                                    *)
(*   path := '$' step*                                                     *)
(*   step := '.' (ident | '"' quoted '"')                                  *)
(*         | '[' (digits | '#' ('-' digits)?) ']'                          *)
(***************************************************************************)
\* offset after the characters of an unquoted label that start at i
RECURSIVE IdentEnd(_,_)
IdentEnd(z, i) ==
  IF zAt(z, i) \in {CH_NUL, CH_DOT, CH_LBRACKET} THEN i
  ELSE IdentEnd(z, i + 1)

\* offset of the '"' that closes a quoted label whose text starts at i, or
\* of the end of z
RECURSIVE QuotedEnd(_,_)
QuotedEnd(z, i) ==
  IF zAt(z, i) \in {CH_NUL, CH_DQUOTE} THEN i ELSE QuotedEnd(z, i + 1)

\* offset after the digits that start at i
RECURSIVE DigitsEnd(_,_)
DigitsEnd(z, i) ==
  IF zAt(z, i) >= CH_0 /\ zAt(z, i) <= CH_9 THEN DigitsEnd(z, i + 1) ELSE i

\* the number the digits of z from offset i to offset j - 1 denote
RECURSIVE DigitsValue(_,_,_)
DigitsValue(z, i, j) ==
  IF i >= j THEN 0
  ELSE DigitsValue(z, i, j - 1) * 10 + (zAt(z, j - 1) - CH_0)

\* the step of the grammar that starts at offset i of z and the offset
\* after it; ok = FALSE when no step of the grammar starts there
StepAt(z, i) ==
  IF zAt(z, i) = CH_DOT
    THEN IF zAt(z, i + 1) = CH_DQUOTE
           THEN LET e == QuotedEnd(z, i + 2)
                IN [ok |-> zAt(z, e) = CH_DQUOTE,
                    s |-> QKey(Bytes(z, i + 2, e - i - 2)), i |-> e + 1]
           ELSE LET e == IdentEnd(z, i + 1)
                IN [ok |-> e > i + 1,
                    s |-> Key(Bytes(z, i + 1, e - i - 1)), i |-> e]
  ELSE IF zAt(z, i) = CH_LBRACKET
    THEN IF zAt(z, i + 1) = CH_HASH
           THEN IF zAt(z, i + 2) = CH_MINUS
                  THEN LET e == DigitsEnd(z, i + 3)
                       IN [ok |-> e > i + 3 /\ zAt(z, e) = CH_RBRACKET,
                           s |-> Hash(DigitsValue(z, i + 3, e)), i |-> e + 1]
                  ELSE [ok |-> zAt(z, i + 2) = CH_RBRACKET,
                        s |-> Hash(0), i |-> i + 3]
           ELSE LET e == DigitsEnd(z, i + 1)
                IN [ok |-> e > i + 1 /\ zAt(z, e) = CH_RBRACKET,
                    s |-> Idx(DigitsValue(z, i + 1, e)), i |-> e + 1]
  ELSE [ok |-> FALSE, s |-> Idx(0), i |-> i]

\* z from offset i on is step*
RECURSIVE StepsMatch(_,_)
StepsMatch(z, i) ==
  \/ zAt(z, i) = CH_NUL
  \/ StepAt(z, i).ok /\ StepsMatch(z, StepAt(z, i).i)

\* z is a path of the grammar
PathMatches(z) == zAt(z, 0) = CH_DOLLAR /\ StepsMatch(z, 1)

\* the outcome of following z from offset i, starting at element t, when
\* nothing is created: a step is examined when the steps before it have led
\* to an element, and a '[' step only if that element is an array
RECURSIVE Follow(_,_,_)
Follow(t, z, i) ==
  IF zAt(z, i) = CH_NUL THEN "found"
  ELSE IF zAt(z, i) = CH_LBRACKET /\ t.kind # JSONB_ARRAY THEN "notfound"
  ELSE IF ~StepAt(z, i).ok THEN "patherror"
  ELSE IF ChildPos(t, StepAt(z, i).s) = 0 THEN "notfound"
  ELSE Follow(t.kids[ChildPos(t, StepAt(z, i).s)], z, StepAt(z, i).i)

\* a call of remove or replace with one path argument, not NULL
OneLookup ==
  /\ last.fn \in {"remove", "replace"}
  /\ Len(last.paths) = 1
  /\ last.paths[1].arg.type = "text"

PathText == last.paths[1].arg.z

\* the call failed with the error of a path
IsPathError ==
  last.res \in {ResultError("JSON path error"), ResultError("bad JSON path")}

\* the value the navigator returned is an offset into the document or one
\* of the three codes
OneOutcome(rc) ==
  \/ rc >= 0 /\ rc < Len(last.before)
  \/ rc \in {JSON_BLOB_NOTFOUND, JSON_BLOB_PATHERROR, JSON_BLOB_ERROR}

ValidDone == px.phase = "done" /\ px.fn = "json_valid"

\* bit b (1, 2, 4, 8) of FLAGS is set
FlagBit(b) == (px.flags \div b) % 2 = 1

\* the text argument went through the parser and was accepted, in the
\* extended dialect
ParsesExtended ==
  /\ px.m.pc = "ret" /\ px.m.stk = <<>>
  /\ jsonConvertTextToBlob(px.m, FALSE).rc = 0

\* the superficial check of a JSONB: the first header is complete, names a
\* known kind and declares the size of the rest of the blob, a null, true
\* or false having no payload
SuperficialOk(a) ==
  /\ Len(a) > 0
  /\ HdrLen(a, 0) <= Len(a)
  /\ Kind(a, 0) <= JSONB_OBJECT
  /\ DeclSize(a, 0) >= 0
  /\ ElemEnd(a, 0) = Len(a)
  /\ Kind(a, 0) <= JSONB_FALSE => DeclSize(a, 0) = 0

\* the result of json_valid is 1 if ok and 0 otherwise
ValidIs(ok) == px.res = ResultInt(IF ok THEN 1 ELSE 0)

\* C16 -- json_valid(j, flags): FLAGS outside 1..15 is an error; for a text
\* j the result is 1 iff bit 1 is set and j is a text of RFC 8259, or bit 2
\* is set and j parses in the extended dialect; for a blob j the result is
\* 1 iff bit 4 or bit 8 is set and j passes the superficial check.
C16_Valid ==
  ValidDone
    => IF px.flags < 1 \/ px.flags > 15
         THEN px.res.type = "error"
       ELSE IF px.arg.type = "text"
         THEN ValidIs(\/ FlagBit(1) /\ IsRFC8259(px.arg.z)
                      \/ FlagBit(2) /\ ParsesExtended)
       ELSE IF px.arg.type = "blob"
         THEN ValidIs((FlagBit(4) \/ FlagBit(8)) /\ SuperficialOk(px.arg.z))
       ELSE px.res = ResultNull

\* a text of the extended dialect only was refused with FLAGS = 1
C16_Witness ==
  /\ ValidDone /\ px.flags = 1 /\ px.arg.type = "text"
  /\ ParsesExtended /\ ~IsRFC8259(px.arg.z)
  /\ px.res = ResultInt(0)

(***************************************************************************)
(* Properties of the parse cache                                           *)
(***************************************************************************)
CallDone == px.phase = "done"

\* C17: the parse cache never holds more than JSON_CACHE_SIZE = 4 entries:
\* whatever searches and insertions the calls made, 0 <= nUsed <= 4 and
\* each of the slots 0..nUsed-1 holds a JsonParse that is referenced and
\* has its text in an RCStr
C17_CacheBounded ==
  /\ jc.nUsed \in 0..JSON_CACHE_SIZE
  /\ \A k \in Slots : k < jc.nUsed => jc.a[k].nJPRef >= 1 /\ jc.a[k].zId # 0

\* a call that began with a full cache has inserted a JsonParse
C17_Witness ==
  /\ CallDone /\ px.jc0.nUsed = JSON_CACHE_SIZE /\ px.ins # <<>>
  /\ jc.nUsed = JSON_CACHE_SIZE

\* the buffers of the entries the cache had when the call began
BuffersAtCall == { px.jc0.a[k].pBlob : k \in { s \in Slots : s < px.jc0.nUsed } }

Entries(c) == [k \in 1..c.nUsed |-> c.a[k - 1]]

\* the RCStr of each entry from the head to the tail
EntryIds(c) == [k \in 1..c.nUsed |-> c.a[k - 1].zId]

\* the sequence s without its element at offset i
Without(s, i) == SubSeq(s, 1, i) \o SubSeq(s, i + 2, Len(s))

\* the last n elements of s, all of them if there are fewer
LastN(s, n) == IF Len(s) <= n THEN s ELSE SubSeq(s, Len(s) - n + 1, Len(s))

\* C19: replacement is LRU: a search that hits slot i leaves the entries
\* in the order they had without the one of slot i, followed by that one;
\* and when the call is over the cache holds, from head to tail, the last
\* JSON_CACHE_SIZE of the entries it held after the search followed by
\* the entries the call inserted, so that an insertion into a full cache
\* drops the head and puts the new entry at the tail
C19_LRU ==
  /\ (px.hit >= 0 /\ px.phase # "start")
     => Entries(px.jc1)
        = Append(Without(Entries(px.jc0), px.hit), px.jc0.a[px.hit])
  /\ (px.hit < 0 /\ px.phase # "start") => px.jc1 = px.jc0
  /\ px.phase \notin {"start", "idle"}
     => EntryIds(jc) = LastN(EntryIds(px.jc1) \o px.ins, JSON_CACHE_SIZE)

\* a call found its text in one of the first two slots of a full cache and
\* then inserted a JsonParse
C19_Witness ==
  /\ CallDone /\ px.jc0.nUsed = JSON_CACHE_SIZE
  /\ px.hit \in {0, 1} /\ px.ins # <<>>
  /\ jc.a[0] = px.jc1.a[1]

\* the slots in use of c whose text is the RCStr id
IdentitySlots(c, id) == { k \in Slots : k < c.nUsed /\ c.a[k].zId = id }

\* the slots in use of c whose text has the length and the bytes of z
ContentSlots(c, z) ==
  { k \in Slots : k < c.nUsed /\ Len(c.a[k].zJson) = Len(z)
                  /\ \A n \in 1..Len(z) : c.a[k].zJson[n] = z[n] }

\* the call got as far as jsonCacheSearch
Looked == px.phase # "start" /\ px.arg.type = "text"
          /\ (px.fn \in {"json", "jsonb_remove"}
              \/ (px.fn = "json_valid" /\ px.flags \in 1..15
                  /\ px.flags % 4 # 0))

\* C20: the key of a lookup: if the text of the argument is in memory where
\* the text of an entry is, the search returns the first such entry,
\* whatever the contents of the other entries; if no entry is at that
\* place, it returns the first entry whose text has the same length and
\* the same bytes; and if no entry has them either, it returns none and
\* leaves the cache as it was
C20_LookupKey ==
  Looked =>
    /\ IdentitySlots(px.jc0, px.argId) # {}
       => px.hit = MinOf(IdentitySlots(px.jc0, px.argId), -1)
    /\ (IdentitySlots(px.jc0, px.argId) = {}
        /\ ContentSlots(px.jc0, px.arg.z) # {})
       => px.hit = MinOf(ContentSlots(px.jc0, px.arg.z), -1)
    /\ (IdentitySlots(px.jc0, px.argId) = {}
        /\ ContentSlots(px.jc0, px.arg.z) = {})
       => px.hit = -1 /\ px.jc1 = px.jc0

\* the text was found by its place in memory in a slot behind one that has
\* the same bytes
C20_Witness ==
  /\ Looked /\ px.argId # 0 /\ px.hit >= 1
  /\ px.jc0.a[px.hit].zId = px.argId
  /\ \E k \in Slots : k < px.hit /\ px.jc0.a[k].zJson = px.arg.z

\* a text that is in no RCStr was found by its bytes
C20_WitnessContent ==
  /\ Looked /\ px.argId = 0 /\ px.hit >= 0
  /\ px.jc0.a[px.hit].zJson = px.arg.z

\* a text that no entry holds was looked up in a cache that is not empty
C20_WitnessMiss ==
  /\ Looked /\ px.hit = -1 /\ px.jc0.nUsed > 0 /\ px.jc1 = px.jc0

(***************************************************************************)
(* An index at or behind the end of an array                               *)
(***************************************************************************)
\* t with v appended to the array that steps leads to
RECURSIVE AppendIn(_,_,_)
AppendIn(t, steps, v) ==
  IF Len(steps) = 1 THEN [t EXCEPT !.kids = Append(@, v)]
  ELSE [t EXCEPT !.kids[ChildPos(t, Head(steps))] =
                   AppendIn(@, Tail(steps), v)]

\* the number of elements of the array the last step is applied to
ArrayCount == Len(Parent(Before, Steps1).kids)

\* a path whose last step is '[N]' with N no index of the array
IndexAtOrPastEnd ==
  /\ IsEdit /\ ArrayPath
  /\ LastStep.k = "idx" /\ LastStep.n >= ArrayCount

\* C30: with a last step '[N]' on an existing array, insert and set append
\* the value as the new last element when N is the number of elements;
\* when N is larger they leave the array as it is and the call succeeds;
\* replace and remove with N at or above the number of elements change
\* nothing
C30_IndexAtEnd ==
  IndexAtOrPastEnd =>
    /\ Succeeded
    /\ After = IF last.fn \in {"insert", "set"} /\ LastStep.n = ArrayCount
                 THEN AppendIn(Before, Steps1, ValueTree(last.vals[1]))
                 ELSE Before

\* set appended a value to an array that has an element
C30_Witness ==
  /\ IndexAtOrPastEnd /\ last.fn = "set"
  /\ LastStep.n = ArrayCount /\ ArrayCount >= 1
  /\ Succeeded
  /\ Len(Parent(After, Steps1).kids) = ArrayCount + 1

\* insert of an index behind the end left the array as it was
C30_WitnessPast ==
  /\ IndexAtOrPastEnd /\ last.fn = "insert"
  /\ LastStep.n > ArrayCount /\ Succeeded /\ After = Before

(***************************************************************************)
(* Properties of the header codec                                          *)
(***************************************************************************)
HeaderRead == hc.phase = "read"

\* the size class of the header that was read
ReadClass == Rd(hc.a, hc.i) \div 16

\* the shortest header the format has for kind k and size s
ShortestHeader(k, s) ==
  IF s <= 11 THEN << k + 16 * s >>
  ELSE IF s <= 255 THEN ClassHeader(k, 12, s)
  ELSE IF s <= 65535 THEN ClassHeader(k, 13, s)
  ELSE ClassHeader(k, 14, s)

\* C26: the header codec round trip: for every kind 0..12 and payload size
\* s the encoder (jsonBlobAppendNode, jsonBlobChangePayloadSize) writes the
\* header of the shortest size class that holds s (1 byte for s <= 11, 2
\* for s <= 255, 3 for s <= 65535, else 5, the size big-endian), the
\* decoder applied to it returns s and the length of the header, and the
\* decoder returns s as well for a header of a longer class (12, 13 or 14)
\* that holds s
C26_HeaderRoundTrip ==
  HeaderRead =>
    /\ hc.op \in {"append", "change"}
       => /\ hc.a = ShortestHeader(hc.eType, hc.sz)
          /\ hc.n = Len(hc.a)
          /\ hc.osz = hc.sz
    /\ (hc.op = "decode" /\ ReadClass \in 12..14 /\ hc.sz >= 0
        /\ hc.nBlob >= hc.i + ClassLen(ReadClass) + hc.sz)
       => hc.n = ClassLen(ReadClass) /\ hc.osz = hc.sz

\* the size 11 was read from a header of size class 14
C26_Witness ==
  /\ HeaderRead /\ hc.op = "decode" /\ ReadClass = 14 /\ hc.sz = 11
  /\ hc.n = 5 /\ hc.osz = 11

\* a size above 65535 was written and read back
C26_WitnessWritten ==
  /\ HeaderRead /\ hc.op = "append" /\ hc.sz > 65535
  /\ Len(hc.a) = 5 /\ hc.osz = hc.sz

\* C27: an element whose size class is 15 is decoded as having a header
\* of 9 bytes whose payload size is the 8 bytes that follow the first one,
\* big-endian: such an element in the input is parsed
C27_SizeClass15 ==
  (HeaderRead /\ hc.op = "decode" /\ ReadClass = 15 /\ hc.sz >= 0
   /\ hc.nBlob >= hc.i + 9 + hc.sz)
  => hc.n = 9 /\ hc.osz = hc.sz

\* the element that was read runs past the bytes in use
ExceedsBuffer ==
  hc.sz < 0 \/ hc.i + ClassLen(ReadClass) + hc.sz > hc.nBlob

\* C28: the bounds check of the decoder: with no edit in progress, the
\* decoder reports malformed (header length 0) whenever offset + header
\* length + payload size is more than the number of bytes in use, also
\* when the header is cut short and when the size is so large that the
\* sum is not a 32-bit number
C28_BoundsCheck ==
  (HeaderRead /\ hc.op = "decode" /\ ReadClass <= 14 /\ ExceedsBuffer)
  => hc.n = 0

\* C28 for sizes with which offset + header length + payload size is a
\* 32-bit number
C28_BoundsCheckNoWrap ==
  (HeaderRead /\ hc.op = "decode" /\ ReadClass <= 14 /\ ExceedsBuffer
   /\ hc.sz >= 0)
  => hc.n = 0

(***************************************************************************)
(* The kind and the payload of a numeric literal                           *)
(***************************************************************************)
\* the literal without a leading '+'
PlusStripped(z) == IF zAt(z, 0) = CH_PLUS THEN Bytes(z, 1, Len(z) - 1) ELSE z

\* the literal without its sign
Unsigned(z) ==
  IF zAt(z, 0) = CH_PLUS \/ zAt(z, 0) = CH_MINUS
    THEN Bytes(z, 1, Len(z) - 1) ELSE z

\* 0x or 0X in front
IsHexLiteral(z) ==
  zAt(Unsigned(z), 0) = CH_0
  /\ (zAt(Unsigned(z), 1) = 120 \/ zAt(Unsigned(z), 1) = 88)

IsExp(c) == c = 101 \/ c = 69

\* FLOAT: a '.' or an 'e'/'E' was seen (the e of a hexadecimal literal is
\* a digit)
FloatBit(z) ==
  ~IsHexLiteral(z) /\ \E k \in 1..Len(z) : z[k] = CH_DOT \/ IsExp(z[k])

\* JSON5 by the form of the digits: a leading '.', a trailing '.', '.e'
\* or hexadecimal
Json5Form(z) ==
  \/ IsHexLiteral(z)
  \/ zAt(Unsigned(z), 0) = CH_DOT
  \/ zAt(z, Len(z) - 1) = CH_DOT
  \/ \E k \in 1..Len(z) - 1 : z[k] = CH_DOT /\ IsExp(z[k + 1])

\* the element of a literal z with JSON5 bit b
NumberElement(z, b) ==
  NodeHeader(JSONB_INT + (IF FloatBit(z) THEN 2 ELSE 0) + (IF b THEN 1 ELSE 0),
             Len(PlusStripped(z)))
  \o PlusStripped(z)

\* jsonb() of a numeric literal has returned an element
NumberParsed ==
  /\ CallDone /\ px.fn = "jsonb" /\ px.arg.type = "text"
  /\ px.arg.z \in NumberTexts /\ px.res.type = "blob"

\* C29: number classification: the kind of a numeric literal is int, int5,
\* float or float5 by the FLOAT bit (a '.' or 'e'/'E' was seen) and the
\* JSON5 bit (a leading '.', a trailing '.', '.e' or 0x hexadecimal); a
\* leading '+' is stripped from the payload and marks the text as
\* non-standard, and does not by itself set the JSON5 bit
C29_NumberKinds ==
  NumberParsed =>
    /\ px.res.blob = NumberElement(px.arg.z, Json5Form(px.arg.z))
    /\ zAt(px.arg.z, 0) = CH_PLUS => px.m.p.hasNonstd

\* C29 as stated: a leading '+' sets the JSON5 bit as well
C29_NumberKindsPlus ==
  NumberParsed =>
    px.res.blob = NumberElement(px.arg.z, Json5Form(px.arg.z)
                                          \/ zAt(px.arg.z, 0) = CH_PLUS)

\* jsonb('+1') is the int 1
C29_Witness ==
  /\ NumberParsed /\ px.arg.z = << 43, 49 >>
  /\ px.res.blob = << JSONB_INT + 16, 49 >>

\* jsonb('+.5e1') is the float5 .5e1
C29_WitnessFloat5 ==
  /\ NumberParsed /\ px.arg.z = << 43, 46, 53, 101, 49 >>
  /\ px.res.blob = << JSONB_INT + 3 + 64, 46, 53, 101, 49 >>

(***************************************************************************)
(* Properties of the references to JsonParse objects                       *)
(***************************************************************************)
\* the number of slots of the cache that hold object q
Residency(q) == Cardinality({ k \in 1..Len(hp.a) : hp.a[k] = q })

\* the number of pointers to object q the function in progress holds
Held(q) == (IF hp.p = q THEN 1 ELSE 0) + (IF hp.pPatch = q THEN 1 ELSE 0)

\* C21: an entry of the cache holds exactly one reference to its object
\* for as long as it is resident: the insertion into the cache raises
\* nJPRef by one and the eviction or the deletion of the cache releases
\* one, so the count of every object is the number of slots that hold it,
\* at most one, plus the pointers the function in progress holds; after
\* every call each resident object has the count 1
C21_OneReferencePerResidency ==
  /\ Len(hp.a) <= JSON_CACHE_SIZE
  /\ \A q \in 1..NParse :
       /\ Residency(q) <= 1
       /\ hp.obj[q].st = "live" => hp.obj[q].nJPRef = Residency(q) + Held(q)
       /\ (hp.pc = "idle" /\ Residency(q) = 1)
          => hp.obj[q].st = "live" /\ hp.obj[q].nJPRef = 1

\* a function holds a resident object (count 2) in a full cache that has
\* evicted an entry
C21_Witness ==
  /\ hp.pc = "free1" /\ Residency(hp.pPatch) = 1
  /\ hp.obj[hp.pPatch].nJPRef = 2
  /\ Len(hp.a) = JSON_CACHE_SIZE
  /\ \E q \in 1..NParse : hp.obj[q].st = "freed" /\ q < hp.a[1]

\* the cache was deleted after calls that filled it
C21_WitnessDeleted ==
  /\ hp.pc = "idle" /\ hp.a = <<>> /\ hp.n = MaxRefCalls
  /\ Cardinality({ q \in 1..NParse : hp.obj[q].st = "freed" }) >= 5

C23_ResidentOwnsBuffer ==
  /\ \A k \in 1..Len(hp.a) :
       hp.obj[hp.a[k]].aBlob = "heap" /\ hp.obj[hp.a[k]].nBlobAlloc > 0
  /\ ~hp.uaf

(***************************************************************************)
(* Borrowed buffers                                                        *)
(***************************************************************************)
\* C25: editable escalation: no edit stores into a buffer the parse does
\* not own: the blob of the host and the one-byte template of a container
\* that is created are copied to allocated memory before the first store,
\* and the bytes the host passed are as they were when the call returns
C25_NoStoreIntoBorrowed ==
  last.fn # "none" => ~last.extWrite /\ doc = last.before

\* insert or set created a container from the template on the way to its
\* target and returned an edited copy of the document
C25_Witness ==
  /\ last.fn \in {"insert", "set"} /\ Succeeded /\ OnePath
  /\ Len(Steps1) = 2
  /\ ~Resolves(Before, << Steps1[1] >>)
  /\ Resolves(After, Steps1)
  /\ last.res.blob # last.before
  /\ doc = last.before

\* remove returned a shorter copy of the document
C25_WitnessRemove ==
  /\ last.fn = "remove" /\ Succeeded
  /\ Len(last.res.blob) < Len(last.before)
  /\ doc = last.before

(***************************************************************************)
(* The result of a call and the content of the cache                       *)
(***************************************************************************)
RECURSIVE ParseRun(_)
\* jsonXlateTextToBlob(pParse, 0) from its first activation to its return
ParseRun(m) ==
  IF m.pc = "call"
    THEN ParseRun(IF zAt(m.p.zJson, m.i) = CH_LBRACE THEN OpenObject(m)
                  ELSE IF zAt(m.p.zJson, m.i) = CH_LBRACKET THEN OpenArray(m)
                  ELSE IF IsRestart(zAt(m.p.zJson, m.i)) THEN XlateRestart(m)
                  ELSE XlateLeaf(m, XlatePrimitive(m.p, m.i)))
  ELSE IF m.pc = "ret" /\ m.stk # <<>> THEN ParseRun(XlateResume(m))
  ELSE m

\* jsonConvertTextToBlob of the text z by a call that found nothing in the
\* cache
EmptyCacheParse(z, keepError) ==
  jsonConvertTextToBlob(ParseRun(XlateMachine(TextParse(z, 1, 0))), ~keepError)

\* the text json() makes of the blob a
EmptyCacheRender(a) ==
  IF jsonXlateBlobToText(NewParse(a, 2, 0), 0).eErr
    THEN ResultError("malformed JSON")
    ELSE ResultText(jsonXlateBlobToText(NewParse(a, 2, 0), 0).out)

\* the result of the call in progress when the cache is empty
EmptyCacheResult ==
  IF px.fn = "json_valid" THEN ValidEnd(EmptyCacheParse(px.arg.z, TRUE)).res
  ELSE IF EmptyCacheParse(px.arg.z, FALSE).rc # 0
    THEN ResultError(EmptyCacheParse(px.arg.z, FALSE).msg)
  ELSE EmptyCacheRender(EmptyCacheParse(px.arg.z, FALSE).p.aBlob)

\* json() or json_valid() of a text has returned
TextCallDone ==
  /\ CallDone /\ px.arg.type = "text" /\ px.fn \in { "json", "json_valid" }
  /\ px.fn = "json_valid" => px.flags \in 1..15

\* C24: the cache is transparent: the result of a call does not depend on
\* what the cache holds; a call that hits an entry, also an entry that
\* was inserted with the text an earlier call rendered, and with the blob
\* and the non-standard flag of that call, returns what it returns when
\* the cache is empty
C24_CacheTransparent == TextCallDone => px.res = EmptyCacheResult

\* C24 for the calls that use the blob of the entry and not its flag
C24_CacheTransparentBlob ==
  (TextCallDone /\ (px.fn = "json" \/ px.flags = 2))
  => px.res = EmptyCacheResult

====
